---------------------------- MODULE Spec2Model ----------------------------
(***************************************************************************)
(* Model of lodgen: the mesh simplifier (mesh_simplifier.cpp), the LOD     *)
(* orchestrator (lodgen.cpp), the texture processor                        *)
(* (texture_processor.cpp), the atlas packer (texture_atlas.cpp) and the   *)
(* scene saver (scene_io.cpp).                                             *)
(*                                                                         *)
(* Vertex ids are 0-based as in the code; TLA+ sequences are 1-based, so   *)
(* element i of a C++ array a is a[i + 1] here.                            *)
(***************************************************************************)
EXTENDS Integers, Sequences, FiniteSets, TLC

VARIABLES
    mesh,       \* the aiMesh handed to simplify (mutated in place)
    meshIn,     \* the same mesh as it was when simplify was called
    ratio,      \* the ratio argument of the last simplify call, <<num, den>>
    result,     \* the SimplifyResult returned
    locals,     \* the locals of the last simplify call (layout, remap, ...)
    spc,        \* "ready" before the call, "done" after it
    scene,      \* the aiScene handed to processTextures (mutated in place)
    sceneIn,    \* the same scene as it was when processTextures was called
    disk,       \* the file system: [images, models, unwritable]
    texArgs,    \* the arguments of the last processTextures call
    texResult,  \* what it returned: [err, stats], err = "" on success
    texLog,     \* the file reads and writes it made, in order
    tpc,        \* "ready" before the call, "done" after it
    heap,       \* the aiScene objects alive, by handle; the caller's is SourceHandle
    lod,        \* generateLods: its arguments, loop index, results and outcome
    gen,        \* generateLod: its arguments, the ScenePtr returned and its outcome
    atlas,      \* buildAtlas: its scene (mutated in place), arguments, locals and outcome
    lodAtlas,   \* buildLodAtlas: its arguments, the disk it started from and its outcome
    single      \* the single-atlas buildAtlas: its scene (mutated in place), locals and outcome

simplifyVars == <<mesh, meshIn, ratio, result, locals, spc>>

textureVars == <<scene, sceneIn, texArgs, texResult, texLog, tpc>>

lodVars == <<heap, lod, gen>>

atlasVars == <<atlas, lodAtlas, single>>

vars == <<mesh, meshIn, ratio, result, locals, spc,
          scene, sceneIn, disk, texArgs, texResult, texLog, tpc, heap, lod, gen, atlas,
          lodAtlas, single>>

-----------------------------------------------------------------------------
(***************************************************************************)
(* Bounds of the model.                                                    *)
(***************************************************************************)
MaxVerts == 4       \* vertices of an input mesh
MaxFaces == 3       \* faces of an input mesh
MaxChan == 2        \* UV / colour channels an input mesh may populate
MaxWeights == 2     \* weights of one input bone
MaxRefs == 3        \* texture slots of an input scene
MaxTextures == 2    \* embedded textures of an input scene
MaxLods == 2        \* ratios handed to generateLods

(***************************************************************************)
(* Program constants.                                                      *)
(***************************************************************************)
kMaxUVChannels == 8
kMaxColorChannels == 8
kMeshoptMaxAttributes == 32
\* ~0u, the all-ones word; written -1 here (TLC's integers are 32-bit signed).
SENTINEL == -1

\* The ratios simplify is called with, as <<numerator, denominator>>; all are
\* exactly representable as float, so float and exact arithmetic agree.
Ratios == { <<1, 4>>, <<1, 2>>, <<3, 4>> }

-----------------------------------------------------------------------------
(***************************************************************************)
(* Helpers.                                                                *)
(***************************************************************************)
Max(a, b) == IF a >= b THEN a ELSE b

Range(s) == { s[i] : i \in DOMAIN s }

RECURSIVE Flatten(_)
Flatten(ss) == IF ss = <<>> THEN <<>> ELSE Head(ss) \o Flatten(Tail(ss))

SeqsUpTo(S, n) == UNION { [1..k -> S] : k \in 0..n }

-----------------------------------------------------------------------------
(***************************************************************************)
(* Mesh data.  A per-vertex array is [present, data]: a null pointer is    *)
(* present = FALSE; a non-null array of N elements has Len(data) = N.      *)
(* Attribute values are opaque floats; an input mesh carries a distinct,   *)
(* non-zero value in every component of every attribute of every vertex,   *)
(* so a record that lands on the wrong vertex or in the wrong channel is   *)
(* visible.                                                                *)
(***************************************************************************)
Absent == [present |-> FALSE, data |-> <<>>]

AttrVal(kind, ch, v, comp) == 1000 * kind + 100 * ch + 10 * v + comp + 1

Vec3(kind, ch, v) == << AttrVal(kind, ch, v, 0), AttrVal(kind, ch, v, 1), AttrVal(kind, ch, v, 2) >>

Vec4(kind, ch, v) == << AttrVal(kind, ch, v, 0), AttrVal(kind, ch, v, 1), AttrVal(kind, ch, v, 2), AttrVal(kind, ch, v, 3) >>

Zero3 == <<0, 0, 0>>

Zero4 == <<0, 0, 0, 0>>

\* struct InterleavedVertex after memset 0 / value-initialisation
ZeroVertex ==
    [ p |-> Zero3, n |-> Zero3, t |-> Zero3, b |-> Zero3,
      uv |-> [ch \in 0..(kMaxUVChannels - 1) |-> Zero3],
      col |-> [ch \in 0..(kMaxColorChannels - 1) |-> Zero4] ]

\* The number of leading channels 0, 1, ... that are non-null.
RECURSIVE LeadingPresent(_, _, _)
LeadingPresent(chans, ch, max) ==
    IF ch >= max THEN 0
    ELSE IF ~chans[ch].present THEN 0
    ELSE 1 + LeadingPresent(chans, ch + 1, max)

detectLayout(m) ==
    [ hasNormals |-> m.mNormals.present,
      hasTangents |-> m.mTangents.present,
      uvChannels |-> LeadingPresent(m.mTextureCoords, 0, kMaxUVChannels),
      colorChannels |-> LeadingPresent(m.mColors, 0, kMaxColorChannels) ]

packVertices(m, layout) ==
    [ i \in 1..m.mNumVertices |->
        [ p |-> m.mVertices[i],
          n |-> IF layout.hasNormals THEN m.mNormals.data[i] ELSE Zero3,
          t |-> IF layout.hasTangents THEN m.mTangents.data[i] ELSE Zero3,
          b |-> IF layout.hasTangents THEN m.mBitangents.data[i] ELSE Zero3,
          uv |-> [ch \in 0..(kMaxUVChannels - 1) |->
                    IF ch < layout.uvChannels THEN m.mTextureCoords[ch].data[i] ELSE Zero3],
          col |-> [ch \in 0..(kMaxColorChannels - 1) |->
                    IF ch < layout.colorChannels THEN m.mColors[ch].data[i] ELSE Zero4] ] ]

unpackVertices(m, verts, layout) ==
    LET N == Len(verts) IN
    [ m EXCEPT
        !.mNumVertices = N,
        !.mVertices = [i \in 1..N |-> verts[i].p],
        !.mNormals = IF layout.hasNormals
                     THEN [present |-> TRUE, data |-> [i \in 1..N |-> verts[i].n]]
                     ELSE Absent,
        !.mTangents = IF layout.hasTangents
                      THEN [present |-> TRUE, data |-> [i \in 1..N |-> verts[i].t]]
                      ELSE Absent,
        !.mBitangents = IF layout.hasTangents
                        THEN [present |-> TRUE, data |-> [i \in 1..N |-> verts[i].b]]
                        ELSE Absent,
        !.mTextureCoords = [ch \in 0..(kMaxUVChannels - 1) |->
                              IF ch < layout.uvChannels
                              THEN [present |-> TRUE, data |-> [i \in 1..N |-> verts[i].uv[ch]]]
                              ELSE Absent],
        !.mColors = [ch \in 0..(kMaxColorChannels - 1) |->
                       IF ch < layout.colorChannels
                       THEN [present |-> TRUE, data |-> [i \in 1..N |-> verts[i].col[ch]]]
                       ELSE Absent] ]

extractPositions(verts) == [i \in 1..Len(verts) |-> verts[i].p]

\* The attribute bundle handed to the kernel: how many UV channels and whether
\* normals go in, the component count, the stride in bytes and the weights
\* (in tenths: 15 is 1.5f, 8 is 0.8f, 5 is 0.5f).
RECURSIVE ReduceUV(_, _)
ReduceUV(uvChans, hasNormals) ==
    IF uvChans * 2 + (IF hasNormals THEN 3 ELSE 0) > kMeshoptMaxAttributes /\ uvChans > 0
    THEN ReduceUV(uvChans - 1, hasNormals)
    ELSE uvChans

buildSimplifyAttributes(verts, layout) ==
    LET uvChansToUse == ReduceUV(layout.uvChannels, layout.hasNormals)
        needed == uvChansToUse * 2 + (IF layout.hasNormals THEN 3 ELSE 0)
        useNormals == layout.hasNormals /\ needed <= kMeshoptMaxAttributes
        count == uvChansToUse * 2 + (IF useNormals THEN 3 ELSE 0)
        empty == [count |-> 0, stride |-> 0, data |-> <<>>, weights |-> <<>>]
    IN  IF count = 0 THEN [empty EXCEPT !.stride = count * 4]
        ELSE IF count * 4 > 256 THEN empty
        ELSE [ count |-> count,
               stride |-> count * 4,
               data |-> [i \in 1..Len(verts) |->
                           [k \in 1..count |->
                               IF k <= 2 * uvChansToUse
                               THEN verts[i].uv[(k - 1) \div 2][((k - 1) % 2) + 1]
                               ELSE verts[i].n[k - 2 * uvChansToUse]]],
               weights |-> [k \in 1..count |->
                               IF k <= 2 THEN (IF uvChansToUse > 0 THEN 15 ELSE 5)
                               ELSE IF k <= 2 * uvChansToUse THEN 8
                               ELSE 5] ]

\* The inner loop of remapBoneWeights writing the kept weights from the back
\* of the array: the survivors come out in reverse order.
CompactWeights_Reversed(bone, remap) ==
    LET Keep(w) == w.mVertexId < Len(remap) /\ remap[w.mVertexId + 1] # SENTINEL
        Move(w) == [w EXCEPT !.mVertexId = remap[w.mVertexId + 1]]
        Kept == SelectSeq(bone, Keep)
    IN  [j \in 1..Len(Kept) |-> Move(Kept[Len(Kept) + 1 - j])]

\* The inner loop of remapBoneWeights over one bone: translate and compact
\* in place, dropping removed vertices; bone->mNumWeights = out.
CompactWeights(bone, remap) ==
    LET Keep(w) == w.mVertexId < Len(remap) /\ remap[w.mVertexId + 1] # SENTINEL
        Move(w) == [w EXCEPT !.mVertexId = remap[w.mVertexId + 1]]
        Kept == SelectSeq(bone, Keep)
    IN  [j \in 1..Len(Kept) |-> Move(Kept[j])]

\* remapBoneWeights with the translation forgotten: every weight is kept with
\* the vertex id it had before compaction.
remapBoneWeights_Untranslated(m, remap) == m

remapBoneWeights(m, remap) ==
    [ m EXCEPT !.mBones = [b \in 1..Len(m.mBones) |-> CompactWeights(m.mBones[b], remap)] ]

extractIndices(m) == Flatten(m.mFaces)

\* The positions-only kernel called whatever the bundle holds.
KernelVariant_PositionsOnly(attrs) == "meshopt_simplify"

\* if ( attrs.count > 0 ) meshopt_simplifyWithAttributes else meshopt_simplify
KernelVariant(attrs) ==
    IF attrs.count > 0 THEN "meshopt_simplifyWithAttributes" ELSE "meshopt_simplify"

writeBackFaces(m, indices) ==
    [ m EXCEPT !.mFaces =
        [f \in 1..(Len(indices) \div 3) |->
            << indices[3 * (f - 1) + 1], indices[3 * (f - 1) + 2], indices[3 * (f - 1) + 3] >>] ]

-----------------------------------------------------------------------------
(***************************************************************************)
(* The meshoptimizer calls made by simplify.  The library is external; it  *)
(* is modelled by its contract, as a set of allowed outcomes.              *)
(***************************************************************************)
\* The index list split into triangles (a trailing partial group is dropped).
Triangles(indices) ==
    [f \in 1..(Len(indices) \div 3) |->
        << indices[3 * (f - 1) + 1], indices[3 * (f - 1) + 2], indices[3 * (f - 1) + 3] >>]

\* targetIndexCount with the ratio left out of the product.
TargetIndexCount_Unscaled(n, r) == Max((n \div 3) * 3, 3)

\* targetIndexCount of simplify: (size_t)(indices.size() * ratio) / 3 * 3,
\* at least 3.
TargetIndexCount(n, r) == Max((((n * r[1]) \div r[2]) \div 3) * 3, 3)

\* An edge-collapse run maps every vertex to the vertex it was merged into.
CollapseMaps(V) ==
    { c \in [0..(V - 1) -> 0..(V - 1)] : \A v \in 0..(V - 1) : c[c[v]] = c[v] }

\* The triangles that survive a collapse map, in their input order.
ApplyCollapse(c, indices) ==
    LET moved == [f \in 1..(Len(indices) \div 3) |->
                    << c[Triangles(indices)[f][1]], c[Triangles(indices)[f][2]],
                       c[Triangles(indices)[f][3]] >>]
        Alive(t) == t[1] # t[2] /\ t[2] # t[3] /\ t[1] # t[3]
    IN  Flatten(SelectSeq(moved, Alive))

\* meshopt_simplify / meshopt_simplifyWithAttributes: an index list that is
\* no longer than the input and references input vertices only.  The kernel
\* collapses nothing when the input is already within the target; otherwise
\* it may stop anywhere (error target 0.01, topology), above or below the
\* target.
meshopt_simplify(indices, V, target) ==
    IF Len(indices) <= target
    THEN { indices }
    ELSE { ApplyCollapse(c, indices) : c \in CollapseMaps(V) }

\* meshopt_optimizeVertexCache then meshopt_optimizeOverdraw: the triangles
\* in some other order.
Reorderings(indices) ==
    LET k == Len(indices) \div 3
        perms == { p \in [1..k -> 1..k] : \A i, j \in 1..k : p[i] = p[j] => i = j }
    IN  { Flatten([f \in 1..k |-> Triangles(indices)[p[f]]]) : p \in perms }

\* meshopt_optimizeVertexFetchRemap: new ids in order of first appearance in
\* the index list; a vertex never referenced keeps ~0u.
RECURSIVE FetchRemapFrom(_, _, _, _)
FetchRemapFrom(indices, i, remap, next) ==
    IF i > Len(indices) THEN [remap |-> remap, count |-> next]
    ELSE IF remap[indices[i] + 1] = SENTINEL
         THEN FetchRemapFrom(indices, i + 1, [remap EXCEPT ![indices[i] + 1] = next], next + 1)
         ELSE FetchRemapFrom(indices, i + 1, remap, next)

meshopt_optimizeVertexFetchRemap(indices, V) ==
    FetchRemapFrom(indices, 1, [v \in 1..V |-> SENTINEL], 0)

\* The index buffer left as the kernel returned it (old vertex ids).
meshopt_remapIndexBuffer_Skipped(indices, remap) == indices

meshopt_remapIndexBuffer(indices, remap) ==
    [i \in 1..Len(indices) |-> remap[indices[i] + 1]]

\* Compaction that truncates the vertex buffer instead of moving records to
\* their new slots.
CompactVertices_Truncate(verts, remap, newVertCount) ==
    [ j \in 1..newVertCount |-> verts[j] ]

\* compacted( newVertCount ), then compacted[remap[i]] = verts[i] for i in
\* increasing order: the last writer of a slot wins, an unwritten slot stays
\* value-initialised.
CompactVertices(verts, remap, newVertCount) ==
    [ j \in 1..newVertCount |->
        LET writers == { i \in 1..Len(verts) : remap[i] = j - 1 }
        IN  IF writers = {} THEN ZeroVertex
            ELSE verts[CHOOSE i \in writers : \A k \in writers : k <= i] ]

-----------------------------------------------------------------------------
(***************************************************************************)
(* simplify( aiMesh* mesh, float ratio ).                                  *)
(***************************************************************************)
NoLocals ==
    [ ran |-> FALSE,
      layout |-> [hasNormals |-> FALSE, hasTangents |-> FALSE, uvChannels |-> 0, colorChannels |-> 0],
      verts |-> <<>>, target |-> 0, attrCount |-> 0,
      attrs |-> [count |-> 0, stride |-> 0, data |-> <<>>, weights |-> <<>>], kernel |-> "none",
      kernelOut |-> <<>>, reordered |-> <<>>,
      remap |-> <<>>, newVertCount |-> 0, compacted |-> <<>>, simplified |-> <<>> ]

\* The primitive-kind test as a bit test: any mesh holding triangles passes.
IsPassthrough_BitTest(m) ==
    \/ "TRIANGLE" \notin m.mPrimitiveTypes
    \/ Flatten(m.mFaces) = <<>>

\* The two early returns: not a pure triangle mesh, or no indices.
IsPassthrough(m) ==
    \/ m.mPrimitiveTypes # {"TRIANGLE"}
    \/ extractIndices(m) = <<>>

\* SimplifyResult result{}; result.originalTriangles = mesh->mNumFaces;
PassthroughResult(m) ==
    [ originalTriangles |-> Len(m.mFaces), simplifiedTriangles |-> 0, error |-> "none" ]

\* Steps 5 and 6 of simplify for one reordered kernel outcome.
CompactAndWriteBack(m, r, kernelOut, reordered) ==
    LET layout == detectLayout(m)
        verts == packVertices(m, layout)
        indices == extractIndices(m)
        fr == meshopt_optimizeVertexFetchRemap(reordered, Len(verts))
        simplified == meshopt_remapIndexBuffer(reordered, fr.remap)
        compacted == CompactVertices(verts, fr.remap, fr.count)
        m1 == remapBoneWeights(m, fr.remap)
        m2 == unpackVertices(m1, compacted, layout)
        m3 == writeBackFaces(m2, simplified)
    IN  [ mesh |-> m3,
          result |-> [ originalTriangles |-> Len(m.mFaces),
                       simplifiedTriangles |-> Len(m3.mFaces),
                       error |-> "kernel" ],
          locals |-> [ ran |-> TRUE, layout |-> layout, verts |-> verts,
                       target |-> TargetIndexCount(Len(indices), r),
                       attrCount |-> buildSimplifyAttributes(verts, layout).count,
                       attrs |-> buildSimplifyAttributes(verts, layout),
                       kernel |-> KernelVariant(buildSimplifyAttributes(verts, layout)),
                       kernelOut |-> kernelOut, reordered |-> reordered,
                       remap |-> fr.remap, newVertCount |-> fr.count,
                       compacted |-> compacted, simplified |-> simplified ] ]

\* Every outcome of simplify(m, r): the mesh afterwards, the result returned
\* and the locals of the call.
simplify(m, r) ==
    IF IsPassthrough(m)
    THEN { [ mesh |-> m, result |-> PassthroughResult(m), locals |-> NoLocals ] }
    ELSE LET indices == extractIndices(m)
             target == TargetIndexCount(Len(indices), r)
         IN  UNION { { CompactAndWriteBack(m, r, out, re) : re \in Reorderings(out) } :
                        out \in meshopt_simplify(indices, m.mNumVertices, target) }

Simplify(r) ==
    /\ spc = "ready"
    /\ \E o \in simplify(mesh, r) :
          /\ mesh' = o.mesh
          /\ result' = o.result
          /\ locals' = o.locals
    /\ ratio' = r
    /\ spc' = "done"
    /\ UNCHANGED meshIn
    /\ UNCHANGED <<textureVars, disk, lodVars, atlasVars>>

-----------------------------------------------------------------------------
(***************************************************************************)
(* Input meshes.  Every input satisfies M1-M3 and has its primitive kind   *)
(* set from its faces.                                                     *)
(***************************************************************************)
MakeMesh(V, kinds, faces, hasN, hasT, uvSet, colSet, bones) ==
    [ mNumVertices |-> V,
      mPrimitiveTypes |-> kinds,
      mFaces |-> faces,
      mVertices |-> [i \in 1..V |-> Vec3(1, 0, i - 1)],
      mNormals |-> IF hasN THEN [present |-> TRUE, data |-> [i \in 1..V |-> Vec3(2, 0, i - 1)]]
                   ELSE Absent,
      mTangents |-> IF hasT THEN [present |-> TRUE, data |-> [i \in 1..V |-> Vec3(3, 0, i - 1)]]
                    ELSE Absent,
      mBitangents |-> IF hasT THEN [present |-> TRUE, data |-> [i \in 1..V |-> Vec3(4, 0, i - 1)]]
                      ELSE Absent,
      mTextureCoords |-> [ch \in 0..(kMaxUVChannels - 1) |->
                            IF ch \in uvSet
                            THEN [present |-> TRUE, data |-> [i \in 1..V |-> Vec3(5, ch, i - 1)]]
                            ELSE Absent],
      mColors |-> [ch \in 0..(kMaxColorChannels - 1) |->
                     IF ch \in colSet
                     THEN [present |-> TRUE, data |-> [i \in 1..V |-> Vec4(6, ch, i - 1)]]
                     ELSE Absent],
      mBones |-> bones,
      mMaterialIndex |-> 0 ]

\* A weight list; the weight value records the bone and the position it had
\* on input.
WeightList(b, ids) == [j \in 1..Len(ids) |-> [mVertexId |-> ids[j], mWeight |-> 10 * b + j]]

AllVerticesBone(V) == << WeightList(1, [j \in 1..V |-> j - 1]) >>

\* Triangle meshes of every shape within the bounds, fully attributed, one
\* bone weighting every vertex.  The faces of a mesh are distinct and listed
\* in a fixed order: the reorder passes permute the triangles anyway.
TriPool(V) == { t \in (0..(V - 1)) \X (0..(V - 1)) \X (0..(V - 1)) : t[1] < t[2] /\ t[2] < t[3] }

TriCode(t) == 100 * t[1] + 10 * t[2] + t[3]

FaceLists(V) ==
    { fl \in SeqsUpTo(TriPool(V), MaxFaces) :
        \A i \in 1..(Len(fl) - 1) : TriCode(fl[i]) < TriCode(fl[i + 1]) }

TopologyMeshes ==
    UNION { { MakeMesh(V, {"TRIANGLE"}, fl, TRUE, TRUE, {0}, {0}, AllVerticesBone(V)) :
                fl \in FaceLists(V) } : V \in 1..MaxVerts }

\* A quad of two triangles, used where the inputs vary in something else.
QuadFaces == << <<0, 1, 2>>, <<0, 2, 3>> >>

\* The quad under every attribute layout: normals or not, tangents and
\* bitangents or not, any subset of the first MaxChan UV channels and colour
\* channels (a subset may leave a gap before a populated channel).
LayoutMeshes ==
    { MakeMesh(4, {"TRIANGLE"}, QuadFaces, hasN, hasT, uvSet, colSet, <<>>) :
        hasN \in BOOLEAN, hasT \in BOOLEAN,
        uvSet \in SUBSET (0..(MaxChan - 1)), colSet \in SUBSET (0..(MaxChan - 1)) }

\* The quad with its first k UV channels populated, k from 0 to the maximum,
\* with and without normals.
ChannelCountMeshes ==
    { MakeMesh(4, {"TRIANGLE"}, QuadFaces, hasN, FALSE, 0..(k - 1), {}, <<>>) :
        k \in 0..kMaxUVChannels, hasN \in BOOLEAN }

\* The quad with no bone, one bone or two bones, over every weight list
\* within the bound (vertex ids may repeat).
Reverse(q) == [j \in 1..Len(q) |-> q[Len(q) + 1 - j]]

BoneLists ==
    UNION { { <<>>, << WeightList(1, ids) >>, << WeightList(1, ids), WeightList(2, Reverse(ids)) >> } :
                ids \in SeqsUpTo(0..3, MaxWeights) }

BoneMeshes ==
    { MakeMesh(4, {"TRIANGLE"}, QuadFaces, TRUE, FALSE, {0}, {}, bones) : bones \in BoneLists }

\* Point, line and mixed meshes: nP points, nL lines and nT triangles, the
\* kind set from the faces; and triangle meshes flagged NGON-encoded.
KindFaces(V, nP, nL, nT) ==
    [f \in 1..nP |-> << (f - 1) % V >>]
    \o [f \in 1..nL |-> << (f - 1) % V, f % V >>]
    \o [f \in 1..nT |-> <<0, 1, 2>>]

KindOf(nP, nL, nT) ==
    (IF nP > 0 THEN {"POINT"} ELSE {}) \cup (IF nL > 0 THEN {"LINE"} ELSE {})
    \cup (IF nT > 0 THEN {"TRIANGLE"} ELSE {})

KindMeshes ==
    { MakeMesh(MaxVerts, KindOf(c[1], c[2], c[3]) \cup flag, KindFaces(MaxVerts, c[1], c[2], c[3]),
               TRUE, FALSE, {0}, {}, AllVerticesBone(MaxVerts)) :
        c \in { d \in (0..MaxFaces) \X (0..MaxFaces) \X (0..MaxFaces) : d[1] + d[2] + d[3] <= MaxFaces },
        flag \in { {}, {"NGON"} } }

InputMeshes ==
    TopologyMeshes \cup LayoutMeshes \cup ChannelCountMeshes \cup BoneMeshes \cup KindMeshes

-----------------------------------------------------------------------------
(***************************************************************************)
(* Scenes, paths and the file system.                                      *)
(*                                                                         *)
(* A path string is <<dir, stem, ext>>: "a/brick.png" is <<"a", "brick",   *)
(* "png">>, the embedded reference "*1" is <<"*", "1", "">>, the empty     *)
(* string is <<"", "", "">>.  A file on disk is <<root, dir, stem, ext>>,  *)
(* root naming the directory the path is relative to.                      *)
(***************************************************************************)
kTextureTypes ==
    << "DIFFUSE", "SPECULAR", "AMBIENT", "EMISSIVE", "HEIGHT", "NORMALS", "SHININESS",
       "OPACITY", "DISPLACEMENT", "LIGHTMAP", "REFLECTION", "BASE_COLOR", "NORMAL_CAMERA",
       "EMISSION_COLOR", "METALNESS", "DIFFUSE_ROUGHNESS", "AMBIENT_OCCLUSION", "SHEEN",
       "CLEARCOAT", "TRANSMISSION" >>

Digits == << "0", "1", "2", "3", "4" >>

TextureStems == << "texture_0", "texture_1", "texture_2", "texture_3", "texture_4" >>

EmptyPath == << "", "", "" >>

StarKey(i) == << "*", Digits[i + 1], "" >>

\* fs::path( p ).filename(), GetShortFilename( p ): the leaf name.  The key
\* "*N" has no directory part: it is its own leaf name, "*" included.
Filename(p) == << IF p[1] = "*" THEN "*" ELSE "", p[2], p[3] >>

\* aiScene::GetEmbeddedTexture: "*N" is texture N when N < mNumTextures; any
\* other name is the first texture whose file name has the same leaf name.
\* The result is the texture's index, or -1 for nullptr.
GetEmbeddedTexture(sc, key) ==
    IF key[1] = "*"
    THEN LET idx == { i \in 0..(Len(sc.textures) - 1) : Digits[i + 1] = key[2] }
         IN  IF idx = {} THEN -1 ELSE CHOOSE i \in idx : TRUE
    ELSE LET idx == { i \in 0..(Len(sc.textures) - 1) :
                        Filename(sc.textures[i + 1].mFilename) = Filename(key) }
         IN  IF idx = {} THEN -1 ELSE CHOOSE i \in idx : \A k \in idx : i <= k

\* max( 1, static_cast<int>( dim * ratio ) )
ScaledDim(dim, r) == Max(1, (dim * r[1]) \div r[2])

\* encodeTexture: the encoder a hint selects.
EncoderFor(hint) == IF hint = "jpg" \/ hint = "jpeg" THEN "jpg" ELSE "png"

\* Every texture slot of the scene, <<material, type, slot>> (0-based material
\* and slot), in the order Pass B visits them.
RECURSIVE SlotRefsFrom(_, _, _)
SlotRefsFrom(sc, m, t) ==
    IF m >= Len(sc.materials) THEN <<>>
    ELSE IF t > Len(kTextureTypes) THEN SlotRefsFrom(sc, m + 1, 1)
    ELSE [k \in 1..Len(sc.materials[m + 1][kTextureTypes[t]]) |-> << m, kTextureTypes[t], k - 1 >>]
         \o SlotRefsFrom(sc, m, t + 1)

SlotRefs(sc) == SlotRefsFrom(sc, 0, 1)

SlotPath(sc, ref) == sc.materials[ref[1] + 1][ref[2]][ref[3] + 1].path

-----------------------------------------------------------------------------
(***************************************************************************)
(* processTextures( scene, ratio, opts ).  The state threaded through the  *)
(* two passes is [scene, disk, stats, map, err, log]: err is "" or the     *)
(* ErrorCode returned, map is pathToOutputName, log the file reads and     *)
(* writes made, in order.                                                  *)
(***************************************************************************)
NoStats == [inputCount |-> 0, outputCount |-> 0]

\* replaceEmbeddedBlob: the texture holds the blob encodeTexture makes of the
\* resized pixels, and the hint it was given.
replaceEmbeddedBlob(tex, w, h, hint) ==
    [tex EXCEPT !.compressed = TRUE, !.decodable = TRUE, !.w = w, !.h = h,
                !.enc = EncoderFor(hint), !.hint = hint]

\* The file name of embedded texture i after Pass A: its own, or
\* "texture_<i>.<hint>" when it had none.
AssignedFilename(tex, i, hint) ==
    IF tex.mFilename = EmptyPath THEN << "", TextureStems[i + 1], hint >> ELSE tex.mFilename

\* The resized blobs stored back from the far end of the array.
ReplacedIndex_Mirrored(textures, i) == Len(textures) - i

\* aiTexture* tex = scene->mTextures[i]: the position in the array (1-based
\* here) of the texture whose blob iteration i replaces.
ReplacedIndex(textures, i) == i + 1

\* Pass A, from embedded texture i on.
RECURSIVE PassA(_, _, _)
PassA(st, i, r) ==
    IF st.err # "" \/ i >= Len(st.scene.textures) THEN st
    ELSE LET tex == st.scene.textures[i + 1]
             counted == [st EXCEPT !.stats.inputCount = @ + 1]
             hint == IF tex.hint = "" THEN "png" ELSE tex.hint
             newTex == [replaceEmbeddedBlob(tex, ScaledDim(tex.w, r), ScaledDim(tex.h, r), hint)
                          EXCEPT !.mFilename = AssignedFilename(tex, i, hint)]
         IN  IF tex.compressed /\ ~tex.decodable
             THEN [counted EXCEPT !.err = "TextureDecodeFailed"]
             ELSE PassA([counted EXCEPT !.scene.textures[ReplacedIndex(st.scene.textures, i)] = newTex,
                                        !.stats.outputCount = @ + 1], i + 1, r)

\* The dedup map never consulted: every slot is a miss.
DedupHit_Never(map, rawPath) == FALSE

\* pathToOutputName.find( rawPath ) != end()
DedupHit(map, rawPath) == rawPath \in DOMAIN map

\* The name recorded being the whole destination path, directory included.
writeExternalFile_FullPath(destPath) == << destPath[1], destPath[3], destPath[4] >>

\* writeExternalFile: return destPath.filename().string()
writeExternalFile(destPath) == Filename(<< destPath[2], destPath[3], destPath[4] >>)

\* Pass B, from slot reference k of refs on.
RECURSIVE PassB(_, _, _, _, _)
PassB(st, refs, k, r, opts) ==
    IF st.err # "" \/ k > Len(refs) THEN st
    ELSE LET ref == refs[k]
             rawPath == SlotPath(st.scene, ref)
             Rewritten(s, name) ==
                 [s EXCEPT !.scene.materials[ref[1] + 1][ref[2]][ref[3] + 1].path = name]
             srcFile == << opts.modelDir, rawPath[1], rawPath[2], rawPath[3] >>
             destPath == << opts.outputDir >> \o Filename(rawPath)
             counted == [st EXCEPT !.stats.inputCount = @ + 1,
                                   !.log = Append(@, << "read", srcFile >>)]
             hint == IF rawPath[3] = "" THEN "png" ELSE rawPath[3]
         IN  IF GetEmbeddedTexture(st.scene, rawPath) # -1
             THEN PassB(st, refs, k + 1, r, opts)
             ELSE IF DedupHit(st.map, rawPath)
             THEN PassB(Rewritten(st, st.map[rawPath]), refs, k + 1, r, opts)
             ELSE IF srcFile \notin DOMAIN st.disk.images
                     \/ ~st.disk.images[srcFile].decodable
             THEN [counted EXCEPT !.err = "TextureLoadFailed"]
             ELSE IF opts.outputDir \notin st.disk.dirs \/ destPath \in st.disk.unwritable
             THEN [counted EXCEPT !.err = "TextureEncodeFailed"]
             ELSE LET src == st.disk.images[srcFile]
                      file == [ w |-> ScaledDim(src.w, r), h |-> ScaledDim(src.h, r),
                                enc |-> EncoderFor(hint), decodable |-> TRUE ]
                      written ==
                          [counted EXCEPT
                              !.disk.images = [q \in DOMAIN @ \cup {destPath} |->
                                                  IF q = destPath THEN file ELSE @[q]],
                              !.map = [q \in DOMAIN @ \cup {rawPath} |->
                                          IF q = rawPath THEN writeExternalFile(destPath) ELSE @[q]],
                              !.stats.outputCount = @ + 1,
                              !.log = Append(@, << "write", destPath >>)]
                  IN  PassB(Rewritten(written, written.map[rawPath]), refs, k + 1, r, opts)

\* processTextures: the scene and the disk afterwards, the stats or the error
\* returned, and the reads and writes made.
processTextures(sc, r, opts, dsk) ==
    LET st0 == [ scene |-> sc, disk |-> dsk, stats |-> NoStats, map |-> <<>>,
                 err |-> "", log |-> <<>> ]
        stA == PassA(st0, 0, r)
    IN  IF stA.err # "" \/ opts.outputDir = "" THEN stA
        ELSE PassB(stA, SlotRefs(stA.scene), 1, r, opts)

ProcessTextures(r, outDir, resize) ==
    /\ tpc = "ready"
    /\ LET opts == [resizeTextures |-> resize, modelDir |-> "model", outputDir |-> outDir]
           st == processTextures(scene, r, opts, disk)
       IN  /\ scene' = st.scene
           /\ disk' = st.disk
           /\ texResult' = [err |-> st.err, stats |-> st.stats]
           /\ texLog' = st.log
           /\ texArgs' = [ratio |-> r, opts |-> opts]
    /\ tpc' = "done"
    /\ UNCHANGED sceneIn
    /\ UNCHANGED <<simplifyVars, lodVars, atlasVars>>

-----------------------------------------------------------------------------
(***************************************************************************)
(* Input scenes and the files of the model directory.                      *)
(***************************************************************************)
Slot(key) == [path |-> key, wrapU |-> "wrap", wrapV |-> "wrap"]

NoSlots == [t \in Range(kTextureTypes) |-> <<>>]

\* Two materials holding the slot keys refs: key 1 is material 0's diffuse
\* slot, key 2 its first normals slot, key 3 material 1's diffuse slot, key 4
\* its first normals slot, and further keys are more normals slots,
\* alternating between the two materials.
MaterialsOf(refs) ==
    [ m \in 1..2 |->
        [ NoSlots EXCEPT
            !["DIFFUSE"] = IF 2 * m - 1 <= Len(refs) THEN << Slot(refs[2 * m - 1]) >> ELSE <<>>,
            !["NORMALS"] =
                (IF 2 * m <= Len(refs) THEN << Slot(refs[2 * m]) >> ELSE <<>>)
                \o [ j \in 1..Max(0, (Len(refs) - 2 - m) \div 2) |-> Slot(refs[4 + m + 2 * (j - 1)]) ] ] ]

MakeScene(meshes, refs, textures) ==
    [ meshes |-> meshes, materials |-> MaterialsOf(refs), textures |-> textures ]

PngBlob ==
    [ compressed |-> TRUE, decodable |-> TRUE, w |-> 4, h |-> 2, enc |-> "png",
      hint |-> "png", mFilename |-> EmptyPath ]

NamedJpgBlob ==
    [ compressed |-> TRUE, decodable |-> TRUE, w |-> 8, h |-> 8, enc |-> "jpg",
      hint |-> "jpg", mFilename |-> << "", "emb", "jpg" >> ]

RawTexels ==
    [ compressed |-> FALSE, decodable |-> TRUE, w |-> 2, h |-> 1, enc |-> "argb8888",
      hint |-> "rgba8888", mFilename |-> EmptyPath ]

CorruptBlob ==
    [ compressed |-> TRUE, decodable |-> FALSE, w |-> 0, h |-> 0, enc |-> "png",
      hint |-> "png", mFilename |-> EmptyPath ]

TexturePool == { PngBlob, NamedJpgBlob, RawTexels, CorruptBlob }

\* "*0", three files of the model directory (two with the same leaf name), the
\* file name of an embedded texture, and the name Pass A gives a nameless
\* texture 0.
KeyPool ==
    { StarKey(0), << "", "brick", "png" >>, << "a", "brick", "png" >>, << "", "wood", "jpg" >>,
      << "", "emb", "jpg" >>, << "", "texture_0", "png" >> }

ImageFile(w, h, enc) == [w |-> w, h |-> h, enc |-> enc, decodable |-> TRUE]

\* A file created by std::ofstream that holds no byte.
EmptyFile == [w |-> 0, h |-> 0, enc |-> "", decodable |-> FALSE]

\* The model directory; wood.jpg cannot be opened for writing in lod2.
ModelDirImages ==
    LET files == { << "model", "", "brick", "png" >>, << "model", "a", "brick", "png" >>,
                   << "model", "", "wood", "jpg" >>, << "model", "", "texture_0", "png" >> }
    IN  [ f \in files |->
            CASE f = << "model", "", "brick", "png" >> -> ImageFile(4, 4, "png")
              [] f = << "model", "a", "brick", "png" >> -> ImageFile(8, 2, "png")
              [] f = << "model", "", "wood", "jpg" >> -> ImageFile(2, 2, "jpg")
              [] f = << "model", "", "texture_0", "png" >> -> ImageFile(1, 1, "png") ]

InitialDisk ==
    [ images |-> ModelDirImages, models |-> <<>>, dirs |-> {"model"},
      unwritable |-> { << "lod2", "", "wood", "jpg" >> } ]

\* The scenes processTextures is called on: every list of slot keys over no
\* embedded texture, a nameless one or a named one; and every list of
\* embedded textures under a few lists of keys, "*1" and the file name of an
\* embedded texture among them.
InputScenes ==
    { MakeScene(<<>>, refs, textures) :
        refs \in SeqsUpTo(KeyPool, MaxRefs),
        textures \in { <<>>, << PngBlob >>, << NamedJpgBlob >> } }
    \cup
    { MakeScene(<<>>, refs, textures) :
        refs \in { <<>>, << StarKey(0) >>, << << "", "brick", "png" >>, StarKey(0) >>,
                   << StarKey(1), StarKey(0) >>,
                   << StarKey(1), << "", "emb", "jpg" >>, << "a", "brick", "png" >> >> },
        textures \in SeqsUpTo(TexturePool, MaxTextures) }

TexRatios == { <<1, 2>>, <<1, 4>> }

\* No output directory, two directories that exist and one that does not.
OutputDirs == { "", "lod1", "lod2", "lod3" }

\* The disk processTextures starts from when called on its own: the output
\* directories lod1 and lod2 have been created, lod3 has not, and the model
\* directory also holds an image file named "*1".
TextureDisk ==
    [InitialDisk EXCEPT
       !.dirs = { "model", "lod1", "lod2" },
       !.images = [f \in DOMAIN @ \cup { << "model" >> \o StarKey(1) } |->
                     IF f \in DOMAIN @ THEN @[f] ELSE ImageFile(2, 2, "png")]]

-----------------------------------------------------------------------------
(***************************************************************************)
(* generateLods( scene, inputPath, outputDir, ratios, texOpts ).  One      *)
(* action is one pass of the loop over the ratios; the ratios, the texture *)
(* options, the loop index and the results so far are in lod.              *)
(***************************************************************************)
SourceHandle == 1

\* "lod" + to_string( i + 1 ), and stem + '_' + that, for i = 0, 1, ...
LodPostfix == << "lod1", "lod2", "lod3", "lod4" >>

LodStem == << "foo_lod1", "foo_lod2", "foo_lod3", "foo_lod4" >>

LodDir(i) == LodPostfix[i + 1]

OutPath(i) == << LodDir(i), "", LodStem[i + 1], "gltf" >>

\* aiCopyScene: a new scene object holding a deep copy.
aiCopyScene(hp, src) ==
    LET new == 1 + Cardinality(DOMAIN hp)
    IN  [ heap |-> [h \in DOMAIN hp \cup {new} |-> IF h = new THEN hp[src] ELSE hp[h]],
          copy |-> new ]

\* ~ScenePtr: aiFreeScene
aiFreeScene(hp, h) == [k \in DOMAIN hp \ {h} |-> hp[k]]

\* The loop body mutating the caller's scene instead of its copy.
LodWorkingScene_Source(src, copy) == src

\* The scene the loop body simplifies and retargets: the copy.
LodWorkingScene(src, copy) == copy

\* An error recorded while the loop goes on to the next ratio.
ReturnError_Swallowed(l, code, step) ==
    [l EXCEPT !.error = code, !.failedStep = step, !.i = @ + 1]

\* return std::unexpected( Error{ code, ... } )
ReturnError(l, code, step) ==
    [l EXCEPT !.status = "error", !.error = code, !.failedStep = step]

\* simplify on every mesh of a scene: every combination of outcomes.
RECURSIVE SimplifyAllFrom(_, _, _)
SimplifyAllFrom(meshes, k, r) ==
    IF k > Len(meshes) THEN { <<>> }
    ELSE { << o.mesh >> \o rest :
              o \in simplify(meshes[k], r), rest \in SimplifyAllFrom(meshes, k + 1, r) }

\* desc->fileExtension of the export formats of Assimp::Exporter.
ExporterExtensions ==
    { "dae", "x", "stp", "obj", "stl", "ply", "3ds", "gltf", "glb", "assbin", "assxml", "x3d",
      "fbx", "3mf", "pbrt", "json" }

\* saveScene: no exporter for the extension (it is not in the exporter's list,
\* or fault = "format": the library was built without that exporter), or the
\* exporter fails, or the model file written holds the scene exported.
saveScene(dsk, sc, path, fault) ==
    IF path[4] \notin ExporterExtensions \/ fault = "format"
    THEN [disk |-> dsk, err |-> "UnsupportedFormat"]
    ELSE IF fault = "export" THEN [disk |-> dsk, err |-> "ExportFailed"]
    ELSE [ disk |-> [dsk EXCEPT !.models = [q \in DOMAIN @ \cup {path} |->
                                               IF q = path THEN sc ELSE @[q]]],
           err |-> "" ]

\* The LodInfo with its mesh results left as value-initialised.
LodInfo_ZeroCounts(r, path, sc, doTex, stats) ==
    [ ratio |-> r,
      outputPath |-> path,
      textureStats |-> [present |-> doTex, stats |-> IF doTex THEN stats ELSE NoStats],
      meshResults |-> [m \in 1..Len(sc.meshes) |->
                          [ originalTriangles |-> 0, simplifiedTriangles |-> 0, error |-> "none" ]] ]

\* LodInfo info; info.ratio, info.outputPath, info.textureStats and one
\* SimplifyResult per mesh with simplifiedTriangles = mNumFaces.
LodInfo(r, path, sc, doTex, stats) ==
    [ ratio |-> r,
      outputPath |-> path,
      textureStats |-> [present |-> doTex, stats |-> IF doTex THEN stats ELSE NoStats],
      meshResults |-> [m \in 1..Len(sc.meshes) |->
                          [ originalTriangles |-> 0,
                            simplifiedTriangles |-> Len(sc.meshes[m].mFaces),
                            error |-> "none" ]] ]

\* One pass of the loop.  fault is what the environment refuses in this pass:
\* creating the directory, copying the scene, finding an exporter for the
\* extension, exporting, or nothing.
LodIteration(fault) ==
    /\ lod.status = "running"
    /\ lod.i < Len(lod.ratios)
    /\ LET i == lod.i
           r == lod.ratios[i + 1]
           begun == [lod EXCEPT !.started = @ \cup {i}]
           disk1 == [disk EXCEPT !.dirs = @ \cup {LodDir(i)}]
           copied == aiCopyScene(heap, SourceHandle)
           work == LodWorkingScene(SourceHandle, copied.copy)
           doTex == lod.texOpts.present /\ lod.texOpts.resizeTextures
       IN  IF fault = "mkdir"
           THEN /\ lod' = ReturnError(begun, "ExportFailed", "mkdir")
                /\ UNCHANGED <<heap, disk>>
           ELSE IF fault = "copy"
           THEN /\ lod' = ReturnError(begun, "SceneCopyFailed", "copy")
                /\ disk' = disk1
                /\ UNCHANGED heap
           ELSE \E ms \in SimplifyAllFrom(copied.heap[work].meshes, 1, r) :
                  LET heap2 == [copied.heap EXCEPT ![work].meshes = ms]
                      st == processTextures(heap2[work], r,
                                            [ resizeTextures |-> lod.texOpts.resizeTextures,
                                              modelDir |-> lod.texOpts.modelDir, outputDir |-> LodDir(i) ],
                                            disk1)
                      heap3 == IF doTex THEN [heap2 EXCEPT ![work] = st.scene] ELSE heap2
                      disk3 == IF doTex THEN st.disk ELSE disk1
                      saved == saveScene(disk3, heap3[work], OutPath(i), fault)
                  IN  /\ heap' = aiFreeScene(heap3, copied.copy)
                      /\ IF doTex /\ st.err # ""
                         THEN /\ lod' = ReturnError(begun, st.err, "textures")
                              /\ disk' = disk3
                         ELSE IF saved.err # ""
                         THEN /\ lod' = ReturnError(begun, saved.err, "export")
                              /\ disk' = saved.disk
                         ELSE /\ lod' = [begun EXCEPT
                                            !.results = Append(@, LodInfo(r, OutPath(i), heap3[work],
                                                                          doTex, st.stats)),
                                            !.i = @ + 1]
                              /\ disk' = saved.disk
    /\ UNCHANGED <<gen, simplifyVars, textureVars, atlasVars>>

\* return results;
LodsReturn ==
    /\ lod.status = "running"
    /\ lod.i >= Len(lod.ratios)
    /\ lod' = [lod EXCEPT !.status = "ok"]
    /\ UNCHANGED <<heap, gen, disk, simplifyVars, textureVars, atlasVars>>

\* generateLod( scene, ratio, texOpts ): the copy is simplified and, when
\* texOpts is given with resizeTextures, handed to processTextures with the
\* caller's options, outputDir included.  On success the copy stays alive in
\* the ScenePtr returned (gen.handle); on an error after the copy was made
\* the ScenePtr going out of scope frees it.  fault = "copy" is aiCopyScene
\* leaving the copy null.
NoHandle == 0

GenerateLod(fault) ==
    /\ gen.pc = "ready"
    /\ LET r == gen.ratio
           copied == aiCopyScene(heap, SourceHandle)
           copy == copied.copy
           doTex == gen.texOpts.present /\ gen.texOpts.resizeTextures
       IN  IF fault = "copy"
           THEN /\ gen' = [gen EXCEPT !.pc = "done", !.err = "SceneCopyFailed"]
                /\ UNCHANGED <<heap, disk>>
           ELSE \E ms \in SimplifyAllFrom(copied.heap[copy].meshes, 1, r) :
                  LET heap2 == [copied.heap EXCEPT ![copy].meshes = ms]
                      st == processTextures(heap2[copy], r,
                                            [ resizeTextures |-> gen.texOpts.resizeTextures,
                                              modelDir |-> gen.texOpts.modelDir,
                                              outputDir |-> gen.texOpts.outputDir ],
                                            disk)
                      heap3 == IF doTex THEN [heap2 EXCEPT ![copy] = st.scene] ELSE heap2
                  IN  /\ disk' = IF doTex THEN st.disk ELSE disk
                      /\ IF doTex /\ st.err # ""
                         THEN /\ gen' = [gen EXCEPT !.pc = "done", !.err = st.err]
                              /\ heap' = aiFreeScene(heap3, copy)
                         ELSE /\ gen' = [gen EXCEPT !.pc = "done", !.handle = copy]
                              /\ heap' = heap3
    /\ UNCHANGED <<lod, simplifyVars, textureVars, atlasVars>>

\* The scenes generateLods is called on.  Either meshes only: a two-sided
\* triangle, alone or beside a point mesh.  Or one triangle with a spare
\* vertex under a few material keys and no embedded texture, a good one or an
\* undecodable one.
TwoSidedMesh ==
    MakeMesh(3, {"TRIANGLE"}, << <<0, 1, 2>>, <<0, 2, 1>> >>, TRUE, FALSE, {0}, {},
             << WeightList(1, <<0, 2>>) >>)

PointMesh ==
    MakeMesh(2, {"POINT"}, << <<0>>, <<1>> >>, FALSE, FALSE, {}, {}, <<>>)

SpareVertexMesh ==
    MakeMesh(4, {"TRIANGLE"}, << <<0, 1, 2>> >>, TRUE, FALSE, {0}, {},
             << WeightList(1, <<0, 3>>) >>)

LodScenes ==
    { MakeScene(meshes, <<>>, <<>>) :
        meshes \in { << TwoSidedMesh >>, << TwoSidedMesh, PointMesh >> } }
    \cup
    { MakeScene(<< SpareVertexMesh >>, refs, textures) :
        refs \in { <<>>, << StarKey(0) >>, << << "", "brick", "png" >> >>,
                   << << "", "wood", "jpg" >>, << "a", "brick", "png" >> >> },
        textures \in { <<>>, << PngBlob >>, << CorruptBlob >> } }

LodRatios == { <<1, 2>>, <<1, 4>> }

LodTexOpts ==
    { [present |-> FALSE, resizeTextures |-> FALSE, modelDir |-> ""],
      [present |-> TRUE, resizeTextures |-> FALSE, modelDir |-> "model"],
      [present |-> TRUE, resizeTextures |-> TRUE, modelDir |-> "model"] }

LodFaults == { "none", "mkdir", "copy", "format", "export" }

\* The texture options generateLod is called with: none, resizing off, or
\* resizing on into a directory that exists (lod1) or does not (lod3).
GenTexOpts ==
    { [present |-> FALSE, resizeTextures |-> FALSE, modelDir |-> "", outputDir |-> ""],
      [present |-> TRUE, resizeTextures |-> FALSE, modelDir |-> "model", outputDir |-> "lod1"] }
    \cup { [present |-> TRUE, resizeTextures |-> TRUE, modelDir |-> "model", outputDir |-> d] :
             d \in { "lod1", "lod3" } }

GenFaults == { "none", "copy" }

-----------------------------------------------------------------------------
(***************************************************************************)
(* buildAtlas( scene, opts ) of texture_atlas.cpp.  Pixel sizes are        *)
(* integers; UV coordinates are exact fractions <<num, den>> with den > 0, *)
(* which the float arithmetic of the code computes exactly for the dyadic  *)
(* values used here.                                                       *)
(***************************************************************************)
kMaxAtlasDim == 8192

TextureTypeIndex(type) == CHOOSE t \in 1..Len(kTextureTypes) : kTextureTypes[t] = type

\* typeSuffix, in the order of kTextureTypes.
TypeSuffixes ==
    << "diffuse", "specular", "ambient", "emissive", "height", "normal", "shininess",
       "opacity", "displacement", "lightmap", "reflection", "basecolor", "normal_camera",
       "emission", "metalness", "roughness", "ao", "sheen", "clearcoat", "transmission" >>

\* Every type named after the diffuse atlas.
typeSuffix_AlwaysDiffuse(type) == "diffuse"

typeSuffix(type) == TypeSuffixes[TextureTypeIndex(type)]

\* std::string( "atlas_" ) + typeSuffix( type ) + ".png", as a leaf path
AtlasFilename(type) == << "", "atlas_" \o typeSuffix(type), "png" >>

\* nextPow2 on 32-bit unsigned: 0 for 0 (the decrement wraps to all ones).
RECURSIVE PowerOfTwoFrom(_, _)
PowerOfTwoFrom(v, p) == IF p >= v THEN p ELSE PowerOfTwoFrom(v, 2 * p)

nextPow2(v) == IF v = 0 THEN 0 ELSE PowerOfTwoFrom(v, 1)

\* static_cast<int>( std::ceil( std::sqrt( n ) ) )
CeilSqrt(n) == CHOOSE k \in 0..n : k * k >= n /\ \A j \in 0..(k - 1) : j * j < n

\* The orders std::sort may leave the indices in: any permutation with the
\* heights non-increasing (the sort is not stable).
SortedByHeight(textures) ==
    LET n == Len(textures)
    IN  { order \in [1..n -> 1..n] :
            /\ \A a, b \in 1..n : a # b => order[a] # order[b]
            /\ \A a \in 1..(n - 1) : textures[order[a]].h >= textures[order[a + 1]].h }

\* The placement loop of shelfPack from position k of order on.
RECURSIVE ShelfPlace(_, _, _, _, _)
ShelfPlace(textures, order, k, atlasW, cur) ==
    IF k > Len(order) THEN cur
    ELSE LET idx == order[k]
             w == textures[idx].w
             h == textures[idx].h
             wrap == cur.curX + w > atlasW
             curX == IF wrap THEN 0 ELSE cur.curX
             curY == IF wrap THEN cur.curY + cur.shelfH ELSE cur.curY
             shelfH == IF wrap THEN 0 ELSE cur.shelfH
         IN  ShelfPlace(textures, order, k + 1, atlasW,
                        [ curX |-> curX + w, curY |-> curY, shelfH |-> Max(shelfH, h),
                          regions |-> [cur.regions EXCEPT ![idx] = [x |-> curX, y |-> curY, w |-> w, h |-> h]] ])

NoRegion == [x |-> 0, y |-> 0, w |-> 0, h |-> 0]

\* shelfPack: the regions, one per texture, and the atlas height, for every
\* order the sort may produce.
shelfPack(textures, atlasW) ==
    { LET done == ShelfPlace(textures, order, 1, atlasW,
                             [ curX |-> 0, curY |-> 0, shelfH |-> 0,
                               regions |-> [i \in 1..Len(textures) |-> NoRegion] ])
      IN  [regions |-> done.regions, atlasH |-> nextPow2(done.curY + done.shelfH)] :
      order \in SortedByHeight(textures) }

\* A file of directory root named by the leaf name of key.
InDir(root, key) == << root >> \o Filename(key)

\* src.externalPath = filePath
RecordedPath(opts, filePath) == filePath

\* The sources being reported empty whatever was collected.
NoSources_Never(sources) == FALSE

\* sources.empty()
NoSources(sources) == sources = <<>>

\* Step 1 from slot reference k of refs on.  st is [sources, keyToSource,
\* slotRefs, err]; a source is [w, h, externalPath], externalPath <<>> when
\* it was not read from disk; source indices are 0-based.
RECURSIVE CollectSources(_, _, _, _, _, _)
CollectSources(st, sc, dsk, opts, refs, k) ==
    IF st.err # "" \/ k > Len(refs) THEN st
    ELSE LET ref == refs[k]
             key == SlotPath(sc, ref)
             embedded == GetEmbeddedTexture(sc, key)
             fromOutput == InDir(opts.outputDir, key)
             fromModel == InDir(opts.modelDir, key)
             filePath == IF fromOutput \in DOMAIN dsk.images THEN fromOutput ELSE fromModel
             Added(src) ==
                 [st EXCEPT
                     !.keyToSource = [q \in DOMAIN @ \cup {key} |->
                                         IF q = key THEN Len(st.sources) ELSE @[q]],
                     !.sources = Append(@, src),
                     !.slotRefs = Append(@, << ref[1], ref[2], ref[3], Len(st.sources) >>)]
         IN  IF key \in DOMAIN st.keyToSource
             THEN CollectSources([st EXCEPT !.slotRefs =
                                     Append(@, << ref[1], ref[2], ref[3], st.keyToSource[key] >>)],
                                 sc, dsk, opts, refs, k + 1)
             ELSE IF embedded # -1
             THEN LET tex == sc.textures[embedded + 1]
                  IN  IF tex.compressed /\ ~tex.decodable
                      THEN [st EXCEPT !.err = "TextureDecodeFailed"]
                      ELSE CollectSources(Added([w |-> tex.w, h |-> tex.h, externalPath |-> <<>>]),
                                          sc, dsk, opts, refs, k + 1)
             ELSE IF filePath \notin DOMAIN dsk.images \/ ~dsk.images[filePath].decodable
             THEN [st EXCEPT !.err = "TextureLoadFailed"]
             ELSE CollectSources(Added([ w |-> dsk.images[filePath].w, h |-> dsk.images[filePath].h,
                                         externalPath |-> RecordedPath(opts, filePath) ]),
                                 sc, dsk, opts, refs, k + 1)

\* Step 2 without its second loop: a material with no diffuse slot is left
\* at -1.
matToDiffuseSrc_NoFallback(numMaterials, slotRefs) ==
    [ m \in 0..(numMaterials - 1) |->
        LET diffuse == { k \in 1..Len(slotRefs) : slotRefs[k][1] = m /\ slotRefs[k][2] = "DIFFUSE" }
        IN  IF diffuse # {} THEN slotRefs[CHOOSE k \in diffuse : \A j \in diffuse : k <= j][4]
            ELSE -1 ]

\* Step 2: per material the source of its first diffuse slot, else of its
\* first slot of any type, else -1.
matToDiffuseSrc(numMaterials, slotRefs) ==
    [ m \in 0..(numMaterials - 1) |->
        LET diffuse == { k \in 1..Len(slotRefs) : slotRefs[k][1] = m /\ slotRefs[k][2] = "DIFFUSE" }
            any == { k \in 1..Len(slotRefs) : slotRefs[k][1] = m }
            First(K) == CHOOSE k \in K : \A j \in K : k <= j
        IN  IF diffuse # {} THEN slotRefs[First(diffuse)][4]
            ELSE IF any # {} THEN slotRefs[First(any)][4]
            ELSE -1 ]

\* The distinct source indices of the slots of a type, in first-seen order.
RECURSIVE TypeSources(_, _, _)
TypeSources(slotRefs, type, k) ==
    IF k > Len(slotRefs) THEN <<>>
    ELSE LET rest == TypeSources(slotRefs, type, k + 1)
             src == slotRefs[k][4]
         IN  IF slotRefs[k][2] # type THEN rest
             ELSE << src >> \o SelectSeq(rest, LAMBDA x : x # src)

\* Every row the blit copies lies inside the atlasW x atlasH pixel buffer.
BlitInBounds(regions, atlasW, atlasH) ==
    \A i \in 1..Len(regions) :
        \/ regions[i].h = 0
        \/ (regions[i].y + regions[i].h - 1) * atlasW + regions[i].x + regions[i].w
              <= atlasW * atlasH

\* The slots of a type given the atlas file name and clamp wrap modes.
RECURSIVE RetargetSlots(_, _, _, _)
RetargetSlots(materials, slotRefs, type, k) ==
    IF k > Len(slotRefs) THEN materials
    ELSE LET ref == slotRefs[k]
         IN  IF ref[2] # type THEN RetargetSlots(materials, slotRefs, type, k + 1)
             ELSE RetargetSlots(
                      [materials EXCEPT ![ref[1] + 1][type][ref[3] + 1] =
                          [path |-> AtlasFilename(type), wrapU |-> "clamp", wrapV |-> "clamp"]],
                      slotRefs, type, k + 1)

\* Step 3 from type t of kTextureTypes on: every state the loop can end in.
\* st is [scene, disk, err, result, newEmbedded, diffuseRegions,
\* diffuseAtlasW, diffuseAtlasH, diffuseBuilt, typeAtlas]; typeAtlas records,
\* per type packed, its atlas size and the region of each of its sources.
\* A blit that writes outside the pixel buffer is undefined behaviour: the
\* process dies at the copy ("crash"), or goes on with its heap corrupted
\* (st.corrupt) and may die at any later point, the files written so far
\* staying on disk; when it dies inside writeFile after std::ofstream opened
\* the atlas file and before the bytes went out, the file is left empty
\* (Opened).  fault = "encode" makes encodePng fail.
RECURSIVE AtlasTypesFrom(_, _, _, _, _, _)
AtlasTypesFrom(st, slotRefs, sources, opts, fault, t) ==
    IF st.err # "" THEN { st }
    ELSE IF t > Len(kTextureTypes)
    THEN { st } \cup (IF st.corrupt THEN { [st EXCEPT !.err = "crash"] } ELSE {})
    ELSE LET type == kTextureTypes[t]
             srcs == TypeSources(slotRefs, type, 1)
             typeTextures == [i \in 1..Len(srcs) |-> sources[srcs[i] + 1]]
             n == Len(typeTextures)
             widths == { typeTextures[i].w : i \in 1..n }
             maxW == CHOOSE w \in widths \cup {0} : \A v \in widths \cup {0} : w >= v
             atlasW == LET p == nextPow2(maxW * CeilSqrt(n))
                       IN  IF p < kMaxAtlasDim THEN p ELSE kMaxAtlasDim
             atlasFile == InDir(opts.outputDir, AtlasFilename(type))
             After(pack) ==
                 LET atlasH == pack.atlasH
                     regionOf == [q \in Range(srcs) |->
                                    pack.regions[CHOOSE i \in 1..n : srcs[i] = q]]
                     tex == [ compressed |-> TRUE, decodable |-> TRUE, w |-> atlasW, h |-> atlasH,
                              enc |-> "png", hint |-> "png", mFilename |-> AtlasFilename(type) ]
                     file == [w |-> atlasW, h |-> atlasH, enc |-> "png", decodable |-> TRUE]
                     first == type = "DIFFUSE" /\ ~st.diffuseBuilt
                 IN  [st EXCEPT
                        !.disk.images = [q \in DOMAIN @ \cup {atlasFile} |->
                                            IF q = atlasFile THEN file ELSE @[q]],
                        !.newEmbedded = Append(@, tex),
                        !.scene.materials = RetargetSlots(@, slotRefs, type, 1),
                        !.diffuseAtlasW = IF first THEN atlasW ELSE @,
                        !.diffuseAtlasH = IF first THEN atlasH ELSE @,
                        !.diffuseRegions = IF first
                                           THEN [q \in DOMAIN @ |->
                                                   IF q \in Range(srcs) THEN regionOf[q] ELSE @[q]]
                                           ELSE @,
                        !.diffuseBuilt = @ \/ first,
                        !.corrupt = @ \/ ~BlitInBounds(pack.regions, atlasW, atlasH),
                        !.typeAtlas = [q \in DOMAIN @ \cup {type} |->
                                          IF q = type
                                          THEN [w |-> atlasW, h |-> atlasH, regions |-> regionOf]
                                          ELSE @[q]],
                        !.result = Append(@, [ filename |-> AtlasFilename(type), type |-> type,
                                               inputCount |-> n, width |-> atlasW,
                                               height |-> atlasH ])]
             opens == fault # "encode" /\ opts.outputDir \in st.disk.dirs
                         /\ atlasFile \notin st.disk.unwritable
             Opened ==
                 [st EXCEPT !.err = "crash",
                            !.disk.images = [q \in DOMAIN @ \cup {atlasFile} |->
                                                IF q = atlasFile THEN EmptyFile ELSE @[q]]]
             Blitted(pack) ==
                 IF ~opens
                 THEN { [st EXCEPT !.err = "AtlasBuildFailed"] }
                 ELSE AtlasTypesFrom(After(pack), slotRefs, sources, opts, fault, t + 1)
             Outcomes(pack) ==
                 IF pack.atlasH > kMaxAtlasDim
                 THEN { [st EXCEPT !.err = "AtlasBuildFailed"] }
                 ELSE IF BlitInBounds(pack.regions, atlasW, pack.atlasH) /\ ~st.corrupt
                 THEN Blitted(pack)
                 ELSE { [st EXCEPT !.err = "crash"] } \cup (IF opens THEN { Opened } ELSE {})
                      \cup Blitted(pack)
         IN  IF n = 0 THEN AtlasTypesFrom(st, slotRefs, sources, opts, fault, t + 1)
             ELSE UNION { Outcomes(pack) : pack \in shelfPack(typeTextures, atlasW) }

\* A fraction u = <<num, den>> mapped to u0 + u * scale with u0 = origin / size
\* and scale = extent / size.
RemapCoord(u, origin, extent, size) == << origin * u[2] + u[1] * extent, u[2] * size >>

\* Step 5 for one mesh.
RemapMeshUV(m, numMaterials, matToSrc, diffuseRegions, atlasW, atlasH) ==
    IF m.mMaterialIndex >= numMaterials THEN m
    ELSE IF matToSrc[m.mMaterialIndex] < 0 THEN m
    ELSE LET reg == diffuseRegions[matToSrc[m.mMaterialIndex]]
             channels == LeadingPresent(m.mTextureCoords, 0, kMaxUVChannels)
         IN  IF reg.w = 0 \/ reg.h = 0 THEN m
             ELSE [m EXCEPT !.mTextureCoords =
                     [ch \in DOMAIN @ |->
                        IF ch >= channels THEN @[ch]
                        ELSE [@[ch] EXCEPT !.data =
                                [v \in DOMAIN @ |->
                                   << RemapCoord(@[v][1], reg.x, reg.w, atlasW),
                                      RemapCoord(@[v][2], reg.y, reg.h, atlasH),
                                      @[v][3] >>]]]]

\* Step 6: fs::remove of every recorded external path.
RemoveSources(images, sources) ==
    LET gone == { sources[i].externalPath : i \in 1..Len(sources) } \ { <<>> }
    IN  [q \in DOMAIN images \ gone |-> images[q]]

NoAtlasLocals ==
    [ sources |-> <<>>, slotRefs |-> <<>>, matToSrc |-> <<>>, diffuseRegions |-> <<>>,
      diffuseAtlasW |-> 1, diffuseAtlasH |-> 1, diffuseBuilt |-> FALSE, typeAtlas |-> <<>> ]

\* buildAtlas: every outcome [scene, disk, err, result, locals]; err is "" on
\* success, an ErrorCode, or "crash".
buildAtlas(sc, opts, dsk, fault) ==
    LET collected == CollectSources([sources |-> <<>>, keyToSource |-> <<>>, slotRefs |-> <<>>, err |-> ""],
                                    sc, dsk, opts, SlotRefs(sc), 1)
        sources == collected.sources
        slotRefs == collected.slotRefs
        matToSrc == matToDiffuseSrc(Len(sc.materials), slotRefs)
        st0 == [ scene |-> [sc EXCEPT !.textures = <<>>], disk |-> dsk, err |-> "", result |-> <<>>,
                 newEmbedded |-> <<>>,
                 diffuseRegions |-> [q \in 0..(Len(sources) - 1) |-> NoRegion],
                 diffuseAtlasW |-> 1, diffuseAtlasH |-> 1, diffuseBuilt |-> FALSE,
                 corrupt |-> FALSE, typeAtlas |-> <<>> ]
        LocalsOf(st) ==
            [ sources |-> sources, slotRefs |-> slotRefs, matToSrc |-> matToSrc,
              diffuseRegions |-> st.diffuseRegions, diffuseAtlasW |-> st.diffuseAtlasW,
              diffuseAtlasH |-> st.diffuseAtlasH, diffuseBuilt |-> st.diffuseBuilt,
              typeAtlas |-> st.typeAtlas ]
        Finish(st) ==
            IF st.err # ""
            THEN [ scene |-> st.scene, disk |-> st.disk, err |-> st.err, result |-> <<>>,
                   locals |-> LocalsOf(st) ]
            ELSE [ scene |->
                     [st.scene EXCEPT
                        !.textures = st.newEmbedded,
                        !.meshes = IF st.diffuseBuilt
                                   THEN [i \in DOMAIN @ |->
                                           RemapMeshUV(@[i], Len(sc.materials), matToSrc,
                                                       st.diffuseRegions, st.diffuseAtlasW,
                                                       st.diffuseAtlasH)]
                                   ELSE @],
                   disk |-> [st.disk EXCEPT !.images = RemoveSources(@, sources)],
                   err |-> "", result |-> st.result, locals |-> LocalsOf(st) ]
    IN  IF collected.err # ""
        THEN { [ scene |-> sc, disk |-> dsk, err |-> collected.err, result |-> <<>>,
                 locals |-> NoAtlasLocals ] }
        ELSE IF NoSources(sources)
        THEN { [ scene |-> sc, disk |-> dsk, err |-> "", result |-> <<>>, locals |-> NoAtlasLocals ] }
        ELSE LET ends == AtlasTypesFrom(st0, slotRefs, sources, opts, fault, 1)
             IN  { Finish(st) : st \in ends }
                 \cup { [Finish(st) EXCEPT !.err = "crash", !.result = <<>>] :
                           st \in { e \in ends : e.err = "" /\ e.corrupt } }

BuildAtlas(fault) ==
    /\ atlas.pc = "ready"
    /\ \E out \in buildAtlas(atlas.scene, atlas.opts, disk, fault) :
          /\ atlas' = [atlas EXCEPT !.pc = "done", !.scene = out.scene, !.err = out.err,
                                    !.result = out.result, !.locals = out.locals]
          /\ disk' = out.disk
    /\ UNCHANGED <<simplifyVars, textureVars, lodVars, lodAtlas, single>>

\* The scenes buildAtlas is called on.  A mesh is the fields buildAtlas
\* reads: its material index and its UV channels.  UVs of a UnitMesh lie in
\* [0,1]; a TiledMesh has UVs outside it.
Frac(n, d) == << n, d >>

UVChannel(uvs) == [present |-> TRUE, data |-> [i \in 1..Len(uvs) |-> << uvs[i][1], uvs[i][2], Frac(0, 1) >>]]

AtlasMesh(materialIndex, uvs0, uvs1) ==
    [ mMaterialIndex |-> materialIndex,
      mNumVertices |-> Len(uvs0),
      mTextureCoords |-> [ch \in 0..(kMaxUVChannels - 1) |->
                            IF ch = 0 THEN UVChannel(uvs0)
                            ELSE IF ch = 1 /\ uvs1 # <<>> THEN UVChannel(uvs1)
                            ELSE Absent] ]

UnitMesh(materialIndex) ==
    AtlasMesh(materialIndex,
              << << Frac(0, 1), Frac(0, 1) >>, << Frac(1, 1), Frac(1, 2) >>, << Frac(1, 2), Frac(1, 1) >> >>,
              << << Frac(1, 1), Frac(1, 1) >>, << Frac(0, 1), Frac(1, 4) >>, << Frac(3, 4), Frac(0, 1) >> >>)

TiledMesh(materialIndex) ==
    AtlasMesh(materialIndex,
              << << Frac(0, 1), Frac(0, 1) >>, << Frac(3, 2), Frac(1, 2) >>, << Frac(-1, 2), Frac(2, 1) >> >>,
              <<>>)

AtlasMeshLists ==
    { << UnitMesh(0) >>, << UnitMesh(0), UnitMesh(1) >>, << TiledMesh(1), UnitMesh(2) >> }

\* "*0", a file resized into the output directory, a file of the model
\* directory only, a file of the output directory named like the diffuse
\* atlas, and an image wider than the largest atlas.
AtlasKeyPool ==
    { StarKey(0), << "", "brick", "png" >>, << "", "wood", "jpg" >>,
      << "", "atlas_diffuse", "png" >>, << "", "wide", "png" >> }

\* Scenes whose material 0 has no diffuse slot but a normals and a specular
\* slot, whose material 1 has no slot, one diffuse slot or two, and whose
\* material 2 has no slot.
FallbackScenes ==
    { [ meshes |-> << UnitMesh(0), UnitMesh(1), UnitMesh(2) >>,
        materials |-> << [ NoSlots EXCEPT !["NORMALS"] = << Slot(n) >>, !["SPECULAR"] = << Slot(sp) >> ],
                         [ NoSlots EXCEPT !["DIFFUSE"] = [j \in 1..Len(d) |-> Slot(d[j])] ],
                         NoSlots >>,
        textures |-> << PngBlob >> ] :
        n \in { StarKey(0), << "", "brick", "png" >> },
        sp \in { << "", "brick", "png" >>, << "", "wood", "jpg" >> },
        d \in { <<>>, << << "", "wood", "jpg" >> >>, << << "", "wood", "jpg" >>, StarKey(0) >> } }

AtlasScenes ==
    { MakeScene(meshes, refs, textures) :
        meshes \in AtlasMeshLists,
        refs \in SeqsUpTo(AtlasKeyPool, MaxRefs),
        textures \in { <<>>, << PngBlob >>, << CorruptBlob >> } }
    \cup FallbackScenes

AtlasOpts == [modelDir |-> "model", outputDir |-> "lod1"]

\* What the environment refuses during buildAtlas: nothing, or the PNG
\* encoding of an atlas.
AtlasFaults == { "none", "encode" }

AtlasDiskImages ==
    LET files == { << "model", "", "brick", "png" >>, << "model", "", "wood", "jpg" >>,
                   << "model", "", "wide", "png" >>, << "lod1", "", "brick", "png" >>,
                   << "lod1", "", "atlas_diffuse", "png" >> }
    IN  [ f \in files |->
            CASE f = << "model", "", "brick", "png" >> -> ImageFile(4, 4, "png")
              [] f = << "model", "", "wood", "jpg" >> -> ImageFile(2, 2, "jpg")
              [] f = << "model", "", "wide", "png" >> -> ImageFile(2 * kMaxAtlasDim, 1, "png")
              [] f = << "lod1", "", "brick", "png" >> -> ImageFile(2, 2, "png")
              [] f = << "lod1", "", "atlas_diffuse", "png" >> -> ImageFile(4, 4, "png") ]

\* The disk buildAtlas starts from: the output directory lod1 exists and the
\* normals atlas may be unwritable, or lod1 has not been created, or the
\* model directory also holds an image file named "*0".
AtlasDisks ==
    { [ images |-> AtlasDiskImages, models |-> <<>>, dirs |-> { "model", "lod1" },
        unwritable |-> unw ] :
      unw \in { {}, { << "lod1", "", "atlas_normal", "png" >> } } }
    \cup { [ images |-> [f \in { g \in DOMAIN AtlasDiskImages : g[1] = "model" } |->
                             AtlasDiskImages[f]],
             models |-> <<>>, dirs |-> { "model" }, unwritable |-> {} ] }
    \cup { [ images |-> [f \in DOMAIN AtlasDiskImages \cup { << "model" >> \o StarKey(0) } |->
                             IF f \in DOMAIN AtlasDiskImages THEN AtlasDiskImages[f]
                             ELSE ImageFile(4, 4, "png")],
             models |-> <<>>, dirs |-> { "model", "lod1" }, unwritable |-> {} ] }

AtlasInit ==
    /\ disk \in AtlasDisks
    /\ \E sc \in AtlasScenes :
          atlas = [ pc |-> "ready", scene |-> sc, sceneIn |-> sc, diskIn |-> disk,
                    opts |-> AtlasOpts, err |-> "", result |-> <<>>, locals |-> NoAtlasLocals ]

AtlasIdle ==
    atlas = [ pc |-> "idle", scene |-> MakeScene(<<>>, <<>>, <<>>), sceneIn |-> MakeScene(<<>>, <<>>, <<>>),
              diskIn |-> InitialDisk, opts |-> AtlasOpts, err |-> "", result |-> <<>>,
              locals |-> NoAtlasLocals ]

-----------------------------------------------------------------------------
(***************************************************************************)
(* buildLodAtlas( modelPath, opts ) of lodgen.cpp.                         *)
(***************************************************************************)
\* loadSceneMutable: the file is missing, or the importer fails, or the scene
\* read from the model file.
loadSceneMutable(dsk, path, fault) ==
    IF path \notin DOMAIN dsk.models THEN [scene |-> MakeScene(<<>>, <<>>, <<>>), err |-> "FileNotFound"]
    ELSE IF fault = "import" THEN [scene |-> MakeScene(<<>>, <<>>, <<>>), err |-> "ImportFailed"]
    ELSE [scene |-> dsk.models[path], err |-> ""]

\* Every outcome of buildLodAtlas: [disk, err, step, result]; step names the
\* call that failed.
buildLodAtlas(modelPath, opts, dsk, fault) ==
    LET sceneResult == loadSceneMutable(dsk, modelPath, fault)
        Saved(out) == saveScene(out.disk, out.scene, modelPath, fault)
    IN  IF sceneResult.err # ""
        THEN { [disk |-> dsk, err |-> sceneResult.err, step |-> "load", result |-> <<>>] }
        ELSE { IF out.err # ""
               THEN [disk |-> out.disk, err |-> out.err, step |-> "atlas", result |-> <<>>]
               ELSE IF Saved(out).err # ""
               THEN [disk |-> Saved(out).disk, err |-> Saved(out).err, step |-> "save", result |-> <<>>]
               ELSE [disk |-> Saved(out).disk, err |-> "", step |-> "", result |-> out.result] :
               out \in buildAtlas(sceneResult.scene, opts, dsk, fault) }

BuildLodAtlas(fault) ==
    /\ lodAtlas.pc = "ready"
    /\ \E out \in buildLodAtlas(lodAtlas.modelPath, lodAtlas.opts, disk, fault) :
          /\ lodAtlas' = [lodAtlas EXCEPT !.pc = "done", !.err = out.err, !.step = out.step,
                                          !.result = out.result]
          /\ disk' = out.disk
    /\ UNCHANGED <<simplifyVars, textureVars, lodVars, atlas, single>>

LodAtlasFaults == { "none", "import", "encode", "format", "export" }

\* The disks buildLodAtlas starts from: the model file of the first lod holds
\* one of the scenes, or is missing, or a model file of an unknown extension
\* holds a scene with one slot.
LodAtlasDisks ==
    LET unknownFormatPath == << LodDir(0), "", LodStem[1], "xyz" >>
    IN
    { [d EXCEPT !.models = [q \in { OutPath(0) } |-> sc]] :
        d \in { e \in AtlasDisks : LodDir(0) \in e.dirs }, sc \in AtlasScenes }
    \cup AtlasDisks
    \cup { [d EXCEPT !.models = [q \in { unknownFormatPath } |->
                                   MakeScene(<< UnitMesh(0) >>, << key >>, <<>>)]] :
             d \in { e \in AtlasDisks : LodDir(0) \in e.dirs },
             key \in { << "", "brick", "png" >>, << "", "wood", "jpg" >> } }

LodAtlasInit ==
    /\ disk \in LodAtlasDisks
    /\ lodAtlas = [ pc |-> "ready",
                    modelPath |-> IF DOMAIN disk.models = {} THEN OutPath(0)
                                  ELSE CHOOSE q \in DOMAIN disk.models : TRUE,
                    opts |-> AtlasOpts, diskIn |-> disk,
                    err |-> "", step |-> "", result |-> <<>> ]

LodAtlasIdle ==
    lodAtlas = [ pc |-> "idle", modelPath |-> OutPath(0), opts |-> AtlasOpts, diskIn |-> InitialDisk,
                 err |-> "", step |-> "", result |-> <<>> ]

-----------------------------------------------------------------------------
(***************************************************************************)
(* buildAtlas( scene ), the single-atlas variant: every embedded texture   *)
(* packed into one atlas that becomes the scene's only texture.            *)
(***************************************************************************)
EmptyAtlasStats == [inputCount |-> 0, outputCount |-> 0, atlasWidth |-> 0, atlasHeight |-> 0]

NoSingleLocals == [regions |-> <<>>, atlasW |-> 0, atlasH |-> 0, matRegion |-> <<>>]

\* matRegion[m]: over the types in order, slot 0 only, the first path that
\* GetEmbeddedTexture resolves and that is spelt "*N"; the texture index N, or
\* -1 for nullptr.
FirstStarRegion(sc, mat) ==
    LET types == { t \in 1..Len(kTextureTypes) :
                     /\ mat[kTextureTypes[t]] # <<>>
                     /\ GetEmbeddedTexture(sc, mat[kTextureTypes[t]][1].path) # -1
                     /\ mat[kTextureTypes[t]][1].path[1] = "*" }
    IN  IF types = {} THEN -1
        ELSE GetEmbeddedTexture(sc, mat[kTextureTypes[CHOOSE t \in types : \A u \in types : t <= u]][1].path)

\* The UV remap loop body of the single-atlas variant.
RemapMeshUVSingle(m, numMaterials, matRegion, regions, atlasW, atlasH) ==
    IF m.mMaterialIndex >= numMaterials THEN m
    ELSE IF matRegion[m.mMaterialIndex] < 0 THEN m
    ELSE LET reg == regions[matRegion[m.mMaterialIndex] + 1]
             channels == LeadingPresent(m.mTextureCoords, 0, kMaxUVChannels)
         IN  [m EXCEPT !.mTextureCoords =
                 [ch \in DOMAIN @ |->
                    IF ch >= channels THEN @[ch]
                    ELSE [@[ch] EXCEPT !.data =
                            [v \in DOMAIN @ |->
                               << RemapCoord(@[v][1], reg.x, reg.w, atlasW),
                                  RemapCoord(@[v][2], reg.y, reg.h, atlasH),
                                  @[v][3] >>]]]]

\* Every slot of every type set to "*0" with clamp on U and V.
RetargetAllSlots(materials) ==
    [ m \in DOMAIN materials |->
        [ t \in DOMAIN materials[m] |->
            [ k \in DOMAIN materials[m][t] |->
                [path |-> StarKey(0), wrapU |-> "clamp", wrapV |-> "clamp"] ] ] ]

\* Every outcome of buildAtlas( scene ): [scene, err, stats, locals]; err is
\* "" on success, an ErrorCode, or "crash" (a blit outside the pixel buffer is
\* undefined behaviour: the process dies or goes on).
buildSingleAtlas(sc, fault) ==
    LET n == Len(sc.textures)
        decoded == [i \in 1..n |-> [w |-> sc.textures[i].w, h |-> sc.textures[i].h]]
        widths == { decoded[i].w : i \in 1..n }
        maxW == CHOOSE w \in widths \cup {0} : \A v \in widths \cup {0} : w >= v
        atlasW == LET p == nextPow2(maxW * CeilSqrt(n))
                  IN  IF p < kMaxAtlasDim THEN p ELSE kMaxAtlasDim
        Failed(code) == [scene |-> sc, err |-> code, stats |-> EmptyAtlasStats, locals |-> NoSingleLocals]
        After(pack) ==
            LET atlasH == pack.atlasH
                matRegion == [m \in 0..(Len(sc.materials) - 1) |-> FirstStarRegion(sc, sc.materials[m + 1])]
                mutated == [sc EXCEPT
                              !.meshes = [i \in DOMAIN @ |->
                                            RemapMeshUVSingle(@[i], Len(sc.materials), matRegion,
                                                              pack.regions, atlasW, atlasH)],
                              !.materials = RetargetAllSlots(@)]
                atlasTex == [ compressed |-> TRUE, decodable |-> TRUE, w |-> atlasW, h |-> atlasH,
                              enc |-> "png", hint |-> "png", mFilename |-> << "", "atlas", "png" >> ]
                loc == [regions |-> pack.regions, atlasW |-> atlasW, atlasH |-> atlasH,
                        matRegion |-> matRegion]
                returned ==
                    IF fault = "encode"
                    THEN [scene |-> mutated, err |-> "AtlasBuildFailed", stats |-> EmptyAtlasStats,
                          locals |-> loc]
                    ELSE [scene |-> [mutated EXCEPT !.textures = << atlasTex >>], err |-> "",
                          stats |-> [inputCount |-> 0, outputCount |-> 1, atlasWidth |-> atlasW,
                                     atlasHeight |-> atlasH],
                          locals |-> loc]
            IN  IF pack.atlasH > kMaxAtlasDim THEN { Failed("AtlasBuildFailed") }
                ELSE IF BlitInBounds(pack.regions, atlasW, atlasH) THEN { returned }
                ELSE { Failed("crash"), returned }
    IN  IF n = 0 THEN { Failed("") }
        ELSE IF \E i \in 1..n : sc.textures[i].compressed /\ ~sc.textures[i].decodable
        THEN { Failed("TextureDecodeFailed") }
        ELSE UNION { After(pack) : pack \in shelfPack(decoded, atlasW) }

BuildSingleAtlas(fault) ==
    /\ single.pc = "ready"
    /\ \E out \in buildSingleAtlas(single.scene, fault) :
          single' = [single EXCEPT !.pc = "done", !.scene = out.scene, !.err = out.err,
                                   !.stats = out.stats, !.locals = out.locals]
    /\ UNCHANGED <<simplifyVars, textureVars, disk, lodVars, atlas, lodAtlas>>

SingleAtlasFaults == { "none", "encode" }

\* An embedded texture wider than the largest atlas, and one as tall as it.
WideBlob ==
    [ compressed |-> TRUE, decodable |-> TRUE, w |-> 2 * kMaxAtlasDim, h |-> 1, enc |-> "png",
      hint |-> "png", mFilename |-> EmptyPath ]

TallBlob ==
    [ compressed |-> TRUE, decodable |-> TRUE, w |-> 1, h |-> kMaxAtlasDim + 1, enc |-> "png",
      hint |-> "png", mFilename |-> EmptyPath ]

\* The scenes the single-atlas buildAtlas is called on: slot keys "*0", "*1",
\* the file name of an embedded texture and an external file, over no
\* embedded texture, one, or two.
SingleAtlasScenes ==
    { MakeScene(meshes, refs, textures) :
        meshes \in AtlasMeshLists,
        refs \in SeqsUpTo({ StarKey(0), StarKey(1), << "", "emb", "jpg" >>, << "", "brick", "png" >> },
                          MaxRefs),
        textures \in { <<>>, << PngBlob >>, << PngBlob, NamedJpgBlob >>, << RawTexels, CorruptBlob >>,
                       << WideBlob >>, << TallBlob >> } }

SingleAtlasInit ==
    \E sc \in SingleAtlasScenes :
        single = [ pc |-> "ready", scene |-> sc, sceneIn |-> sc, err |-> "",
                   stats |-> EmptyAtlasStats, locals |-> NoSingleLocals ]

SingleAtlasIdle ==
    single = [ pc |-> "idle", scene |-> MakeScene(<<>>, <<>>, <<>>), sceneIn |-> MakeScene(<<>>, <<>>, <<>>),
               err |-> "", stats |-> EmptyAtlasStats, locals |-> NoSingleLocals ]

-----------------------------------------------------------------------------
SimplifyInit ==
    /\ mesh \in InputMeshes
    /\ meshIn = mesh
    /\ ratio = <<0, 1>>
    /\ result = PassthroughResult(mesh)
    /\ locals = NoLocals
    /\ spc = "ready"

SimplifyIdle ==
    /\ mesh = MakeMesh(0, {}, <<>>, FALSE, FALSE, {}, {}, <<>>)
    /\ meshIn = mesh
    /\ ratio = <<0, 1>>
    /\ result = PassthroughResult(mesh)
    /\ locals = NoLocals
    /\ spc = "idle"

TexturesInit ==
    /\ scene \in InputScenes
    /\ sceneIn = scene
    /\ texArgs = [ratio |-> <<0, 1>>, opts |-> [resizeTextures |-> TRUE, modelDir |-> "model", outputDir |-> ""]]
    /\ texResult = [err |-> "", stats |-> NoStats]
    /\ texLog = <<>>
    /\ tpc = "ready"

TexturesIdle ==
    /\ scene = MakeScene(<<>>, <<>>, <<>>)
    /\ sceneIn = scene
    /\ texArgs = [ratio |-> <<0, 1>>, opts |-> [resizeTextures |-> TRUE, modelDir |-> "model", outputDir |-> ""]]
    /\ texResult = [err |-> "", stats |-> NoStats]
    /\ texLog = <<>>
    /\ tpc = "idle"

GenIdle ==
    gen = [ pc |-> "idle", ratio |-> <<0, 1>>,
            texOpts |-> [present |-> FALSE, resizeTextures |-> FALSE, modelDir |-> "", outputDir |-> ""],
            err |-> "", handle |-> NoHandle, sceneIn |-> MakeScene(<<>>, <<>>, <<>>) ]

IdleLod ==
    [ ratios |-> <<>>, texOpts |-> [present |-> FALSE, resizeTextures |-> FALSE, modelDir |-> ""],
      i |-> 0, results |-> <<>>, status |-> "idle", error |-> "", failedStep |-> "",
      started |-> {}, sceneIn |-> MakeScene(<<>>, <<>>, <<>>) ]

GenerateLodInit ==
    /\ \E sc \in LodScenes : heap = [h \in {SourceHandle} |-> sc]
    /\ lod = IdleLod
    /\ \E r \in LodRatios, opts \in GenTexOpts :
          gen = [ pc |-> "ready", ratio |-> r, texOpts |-> opts, err |-> "", handle |-> NoHandle,
                  sceneIn |-> heap[SourceHandle] ]

LodsInit ==
    /\ GenIdle
    /\ \E sc \in LodScenes : heap = [h \in {SourceHandle} |-> sc]
    /\ \E ratios \in SeqsUpTo(LodRatios, MaxLods), opts \in LodTexOpts :
          lod = [ ratios |-> ratios, texOpts |-> opts, i |-> 0, results |-> <<>>,
                  status |-> "running", error |-> "", failedStep |-> "", started |-> {},
                  sceneIn |-> heap[SourceHandle] ]

LodsIdle ==
    /\ heap = <<>>
    /\ lod = IdleLod
    /\ GenIdle

\* simplify called once on an input mesh.
Init == SimplifyInit /\ TexturesIdle /\ disk = InitialDisk /\ LodsIdle /\ AtlasIdle /\ LodAtlasIdle /\ SingleAtlasIdle

Next == \E r \in Ratios : Simplify(r)

Spec == Init /\ [][Next]_vars

\* processTextures called once on an input scene.
InitTextures ==
    /\ SimplifyIdle /\ TexturesInit /\ disk = TextureDisk /\ LodsIdle /\ AtlasIdle /\ LodAtlasIdle
    /\ SingleAtlasIdle

NextTextures ==
    \E r \in TexRatios, outDir \in OutputDirs, resize \in BOOLEAN : ProcessTextures(r, outDir, resize)

SpecTextures == InitTextures /\ [][NextTextures]_vars

\* generateLods called once on an input scene.
InitLods == SimplifyIdle /\ TexturesIdle /\ disk = InitialDisk /\ LodsInit /\ AtlasIdle /\ LodAtlasIdle /\ SingleAtlasIdle

NextLods == (\E fault \in LodFaults : LodIteration(fault)) \/ LodsReturn

SpecLods == InitLods /\ [][NextLods]_vars

\* generateLod called once on an input scene.
InitGenerateLod ==
    /\ SimplifyIdle /\ TexturesIdle /\ disk = TextureDisk /\ GenerateLodInit /\ AtlasIdle
    /\ LodAtlasIdle /\ SingleAtlasIdle

NextGenerateLod == \E fault \in GenFaults : GenerateLod(fault)

SpecGenerateLod == InitGenerateLod /\ [][NextGenerateLod]_vars

\* buildAtlas called once on an input scene.
InitAtlas == SimplifyIdle /\ TexturesIdle /\ LodsIdle /\ AtlasInit /\ LodAtlasIdle /\ SingleAtlasIdle

NextAtlas == \E fault \in AtlasFaults : BuildAtlas(fault)

SpecAtlas == InitAtlas /\ [][NextAtlas]_vars

\* buildLodAtlas called once on a model path.
InitLodAtlas == SimplifyIdle /\ TexturesIdle /\ LodsIdle /\ AtlasIdle /\ LodAtlasInit /\ SingleAtlasIdle

NextLodAtlas == \E fault \in LodAtlasFaults : BuildLodAtlas(fault)

SpecLodAtlas == InitLodAtlas /\ [][NextLodAtlas]_vars

\* The single-atlas buildAtlas called once on an input scene.
InitSingleAtlas ==
    /\ SimplifyIdle /\ TexturesIdle /\ disk = InitialDisk /\ LodsIdle /\ AtlasIdle /\ LodAtlasIdle
    /\ SingleAtlasInit

NextSingleAtlas == \E fault \in SingleAtlasFaults : BuildSingleAtlas(fault)

SpecSingleAtlas == InitSingleAtlas /\ [][NextSingleAtlas]_vars

-----------------------------------------------------------------------------
(***************************************************************************)
(* Properties of simplify.                                                 *)
(***************************************************************************)
Indices(m) == Flatten(m.mFaces)

IndicesInRange(m) == \A k \in 1..Len(Indices(m)) : Indices(m)[k] \in 0..(m.mNumVertices - 1)

\* Every per-vertex array of a mesh, as <<name, channel>> -> [present, data].
ArrayNames ==
    { <<"normals", 0>>, <<"tangents", 0>>, <<"bitangents", 0>> }
    \cup { <<"uv", ch>> : ch \in 0..(kMaxUVChannels - 1) }
    \cup { <<"colour", ch>> : ch \in 0..(kMaxColorChannels - 1) }

ArrayOf(m, a) ==
    CASE a[1] = "normals" -> m.mNormals
      [] a[1] = "tangents" -> m.mTangents
      [] a[1] = "bitangents" -> m.mBitangents
      [] a[1] = "uv" -> m.mTextureCoords[a[2]]
      [] a[1] = "colour" -> m.mColors[a[2]]

\* ceil(t * r) for r = <<num, den>>
CeilTimes(t, r) == (t * r[1] + r[2] - 1) \div r[2]

\* The vertices the reordered kernel output references (old ids).
Referenced == Range(locals.reordered)

\* C1 as stated: after simplify every index of the mesh is < V' and the
\* number of indices is a multiple of 3, whatever the primitive kind.
C1_AnyKindMultipleOf3 ==
    spc = "done" => /\ IndicesInRange(mesh)
                    /\ Len(Indices(mesh)) % 3 = 0

\* C1 amended: after simplify every index of the mesh is < V', whatever the
\* primitive kind; the number of indices is a multiple of 3 (every face a
\* triangle) when the mesh is a pure triangle mesh.
C1_WellFormed ==
    spc = "done" => /\ IndicesInRange(mesh)
                    /\ meshIn.mPrimitiveTypes = {"TRIANGLE"} =>
                          /\ Len(Indices(mesh)) % 3 = 0
                          /\ \A f \in 1..Len(mesh.mFaces) : Len(mesh.mFaces[f]) = 3

\* A triangle mesh was simplified to fewer vertices and still has faces.
C1_Witness ==
    /\ spc = "done" /\ locals.ran
    /\ mesh.mNumVertices < meshIn.mNumVertices
    /\ Len(mesh.mFaces) > 0

\* C2: compaction is a faithful relabelling.  The remap table is a bijection
\* from the referenced vertices onto [0, V'), every other vertex maps to
\* SENTINEL, the whole interleaved record of a referenced vertex o is stored
\* at remap[o], and every output index refers to the record (and position)
\* the kernel's index referred to.
C2_FaithfulRelabelling ==
    (spc = "done" /\ locals.ran) =>
        LET V == meshIn.mNumVertices
            remap == locals.remap
        IN  /\ Len(remap) = V
            /\ locals.newVertCount = mesh.mNumVertices
            /\ Len(locals.compacted) = locals.newVertCount
            /\ \A o \in Referenced : remap[o + 1] \in 0..(locals.newVertCount - 1)
            /\ \A o1, o2 \in Referenced : remap[o1 + 1] = remap[o2 + 1] => o1 = o2
            /\ \A n \in 0..(locals.newVertCount - 1) : \E o \in Referenced : remap[o + 1] = n
            /\ \A o \in (0..(V - 1)) \ Referenced : remap[o + 1] = SENTINEL
            /\ \A o \in Referenced : locals.compacted[remap[o + 1] + 1] = locals.verts[o + 1]
            /\ \A o \in Referenced : locals.verts[o + 1].p = meshIn.mVertices[o + 1]
            /\ Len(Indices(mesh)) = Len(locals.reordered)
            /\ \A k \in 1..Len(locals.reordered) :
                  /\ locals.compacted[Indices(mesh)[k] + 1] = locals.verts[locals.reordered[k] + 1]
                  /\ mesh.mVertices[Indices(mesh)[k] + 1] = meshIn.mVertices[locals.reordered[k] + 1]

\* Compaction dropped a vertex and moved another to a new id.
C2_Witness ==
    /\ spc = "done" /\ locals.ran
    /\ \E o \in 0..(meshIn.mNumVertices - 1) : locals.remap[o + 1] = SENTINEL
    /\ \E o \in Referenced : locals.remap[o + 1] # o

\* C3 as stated: after simplify on a triangle mesh every per-vertex array
\* present on input is present on output with length V', and no array that
\* was absent becomes present.
C3_ArraysPreserved ==
    (spc = "done" /\ locals.ran) =>
        /\ Len(mesh.mVertices) = mesh.mNumVertices
        /\ \A a \in ArrayNames :
              /\ ArrayOf(meshIn, a).present =>
                    /\ ArrayOf(mesh, a).present
                    /\ Len(ArrayOf(mesh, a).data) = mesh.mNumVertices
              /\ ~ArrayOf(meshIn, a).present => ~ArrayOf(mesh, a).present

\* C4: after simplify every weight of every bone has vertex_id < V'.  (An id
\* left at SENTINEL is the all-ones word in the code, hence not < V'.)
C4_BoneValidity ==
    spc = "done" =>
        \A b \in 1..Len(mesh.mBones) : \A j \in 1..Len(mesh.mBones[b]) :
            mesh.mBones[b][j].mVertexId \in 0..(mesh.mNumVertices - 1)

\* A weight of the input referred to a vertex that simplification removed,
\* and another weight survived.
C4_Witness ==
    /\ spc = "done" /\ locals.ran
    /\ \E b \in 1..Len(meshIn.mBones) : \E j \in 1..Len(meshIn.mBones[b]) :
          locals.remap[meshIn.mBones[b][j].mVertexId + 1] = SENTINEL
    /\ \E b \in 1..Len(mesh.mBones) : Len(mesh.mBones[b]) > 0

\* C5: simplify leaves a mesh that is not a pure triangle mesh, or has no
\* index, exactly as it was.
C5_PassthroughUnchanged ==
    (spc = "done" /\ (meshIn.mPrimitiveTypes # {"TRIANGLE"} \/ Indices(meshIn) = <<>>)) =>
        mesh = meshIn

\* simplify returned from a mesh mixing points and triangles.
C5_Witness ==
    /\ spc = "done"
    /\ meshIn.mPrimitiveTypes = {"POINT", "TRIANGLE"}
    /\ Len(meshIn.mFaces) > 1

\* C6 as stated: on the passthrough path the result reports simplified_tris
\* equal to original_tris.
C6_PassthroughReportsOriginal ==
    (spc = "done" /\ (meshIn.mPrimitiveTypes # {"TRIANGLE"} \/ Indices(meshIn) = <<>>)) =>
        result.simplifiedTriangles = result.originalTriangles

\* C7 as stated: on a triangle mesh simplified_tris <= ceil(original_tris * r)
\* + 1 for every outcome the kernel may produce.
C7_BudgetAlways ==
    (spc = "done" /\ locals.ran) =>
        result.simplifiedTriangles <= CeilTimes(result.originalTriangles, ratio) + 1

\* C7 amended: simplified_tris <= original_tris for every outcome of the
\* kernel, and simplified_tris <= ceil(original_tris * r) + 1 whenever the
\* kernel returned no more indices than the target it was given.
C7_BudgetWhenTargetReached ==
    (spc = "done" /\ locals.ran) =>
        /\ result.originalTriangles = Len(meshIn.mFaces)
        /\ result.simplifiedTriangles = Len(mesh.mFaces)
        /\ result.simplifiedTriangles <= result.originalTriangles
        /\ Len(locals.kernelOut) <= locals.target =>
              result.simplifiedTriangles <= CeilTimes(result.originalTriangles, ratio) + 1

\* The kernel reached its target on a three-triangle mesh.
C7_Witness ==
    /\ spc = "done" /\ locals.ran
    /\ result.originalTriangles = 3
    /\ Len(locals.kernelOut) <= locals.target
    /\ result.simplifiedTriangles < result.originalTriangles
    /\ result.simplifiedTriangles > 0

-----------------------------------------------------------------------------
(***************************************************************************)
(* Properties of processTextures.                                          *)
(***************************************************************************)
\* The distinct keys the material slots of a scene hold.
SlotKeys(sc) == { SlotPath(sc, SlotRefs(sc)[k]) : k \in 1..Len(SlotRefs(sc)) }

TexturesSucceeded == tpc = "done" /\ texResult.err = ""

\* C10 as stated: after a successful process_textures input_count is the
\* number of distinct keys the material slots reference, and output_count
\* equals input_count.
C10_CountsDistinctKeys ==
    TexturesSucceeded =>
        /\ texResult.stats.inputCount = Cardinality(SlotKeys(sceneIn))
        /\ texResult.stats.outputCount = texResult.stats.inputCount

\* C10 amended: after a successful process_textures input_count is the
\* number of embedded textures of the scene, referenced or not, plus (when
\* output_dir is not empty) the number of distinct slot keys that do not
\* resolve to an embedded texture once Pass A has named the nameless ones;
\* output_count equals input_count.
C10_CountsSources ==
    TexturesSucceeded =>
        LET external == { key \in SlotKeys(sceneIn) :
                            /\ ~(key[1] = "*" /\ \E i \in 1..Len(scene.textures) : Digits[i] = key[2])
                            /\ \A i \in 1..Len(scene.textures) :
                                  Filename(scene.textures[i].mFilename) # Filename(key) }
        IN  /\ texResult.stats.inputCount =
                  Len(sceneIn.textures)
                  + (IF texArgs.opts.outputDir = "" THEN 0 ELSE Cardinality(external))
            /\ texResult.stats.outputCount = texResult.stats.inputCount

\* A successful run over a scene with an embedded texture and one external
\* key held by two slots.
C10_Witness ==
    /\ TexturesSucceeded
    /\ Len(sceneIn.textures) = 1
    /\ texArgs.opts.outputDir # ""
    /\ Len(texLog) > 0
    /\ Cardinality(SlotKeys(sceneIn)) < Len(SlotRefs(sceneIn))
    /\ texResult.stats.inputCount = 2

-----------------------------------------------------------------------------
(***************************************************************************)
(* Properties of generateLods.                                             *)
(***************************************************************************)
LodsCalled == lod.status # "idle"

LodModelsWritten == { j \in 0..(MaxLods + 1) : OutPath(j) \in DOMAIN disk.models }

StepErrors(step) ==
    CASE step = "mkdir" -> { "ExportFailed" }
      [] step = "copy" -> { "SceneCopyFailed" }
      [] step = "textures" -> { "TextureDecodeFailed", "TextureLoadFailed", "TextureEncodeFailed" }
      [] step = "export" -> { "UnsupportedFormat", "ExportFailed" }
      [] OTHER -> {}

\* C8: generate_lods never mutates the caller's source scene: during and
\* after the call, whatever the ratios and whether it succeeds or fails at
\* any step, the source scene object is alive and its meshes (bones
\* included), materials and embedded textures equal those it was called with.
C8_SourceSceneUnchanged ==
    LodsCalled =>
        /\ SourceHandle \in DOMAIN heap
        /\ heap[SourceHandle] = lod.sceneIn

\* A call that returned successfully after writing a model that differs from
\* the source in its meshes and in its material paths.
C8_Witness ==
    /\ lod.status = "ok"
    /\ OutPath(0) \in DOMAIN disk.models
    /\ disk.models[OutPath(0)].meshes # lod.sceneIn.meshes
    /\ disk.models[OutPath(0)].materials # lod.sceneIn.materials
    /\ lod.results[1].textureStats.present

\* C9: if a step of iteration i fails (directory creation, scene clone,
\* texture processing or export) the call returns an error of that step, the
\* iterations started are exactly 0..i, and the model file of every
\* iteration before i is on disk.
C9_FirstErrorAborts ==
    lod.error # "" =>
        /\ lod.status = "error"
        /\ lod.error \in StepErrors(lod.failedStep)
        /\ lod.started = 0..lod.i
        /\ Len(lod.results) = lod.i
        /\ \A j \in 0..(lod.i - 1) :
              /\ OutPath(j) \in DOMAIN disk.models
              /\ lod.results[j + 1].outputPath = OutPath(j)

\* The second iteration failed in texture processing after the first one had
\* written its model.
C9_Witness ==
    /\ lod.status = "error"
    /\ lod.failedStep = "textures"
    /\ lod.i = 1
    /\ Len(lod.ratios) = 2
    /\ LodModelsWritten = {0}


-----------------------------------------------------------------------------
(***************************************************************************)
(* Properties of Pass B and Pass A of processTextures.                     *)
(***************************************************************************)
\* The keys Pass B treats as external: those the lookup of embedded textures
\* does not resolve once Pass A has run.
ExternalKeys == { key \in SlotKeys(sceneIn) : GetEmbeddedTexture(scene, key) = -1 }

LogCount(entry) == Cardinality({ k \in 1..Len(texLog) : texLog[k] = entry })

PassBRan == TexturesSucceeded /\ texArgs.opts.outputDir # ""

\* C11: in one process_textures invocation with a non-empty output_dir each
\* distinct external key is read once and written once however many slots
\* hold it (a destination file is written once per external key with that
\* leaf name), no embedded key is read, and every slot that held an external
\* key K ends with the leaf name of K as its path.
C11_OncePerKeyAndLeafNames ==
    PassBRan =>
        /\ \A key \in ExternalKeys :
              LogCount(<< "read", << texArgs.opts.modelDir, key[1], key[2], key[3] >> >>) = 1
        /\ \A key \in ExternalKeys :
              LogCount(<< "write", << texArgs.opts.outputDir >> \o Filename(key) >>)
                  = Cardinality({ other \in ExternalKeys : Filename(other) = Filename(key) })
        /\ Len(texLog) = 2 * Cardinality(ExternalKeys)
        /\ \A k \in 1..Len(SlotRefs(sceneIn)) :
              LET ref == SlotRefs(sceneIn)[k]
              IN  SlotPath(sceneIn, ref) \in ExternalKeys =>
                      SlotPath(scene, ref) = Filename(SlotPath(sceneIn, ref))

\* A successful run in which two slots hold the same external key, which has
\* a directory part, and a third slot holds another external key.
C11_Witness ==
    /\ PassBRan
    /\ Cardinality(ExternalKeys) = 2
    /\ Len(SlotRefs(sceneIn)) = 3
    /\ << "a", "brick", "png" >> \in ExternalKeys
    /\ \E k1, k2 \in 1..3 :
          /\ k1 # k2
          /\ SlotPath(sceneIn, SlotRefs(sceneIn)[k1]) = << "a", "brick", "png" >>
          /\ SlotPath(sceneIn, SlotRefs(sceneIn)[k2]) = << "a", "brick", "png" >>
          /\ SlotPath(scene, SlotRefs(sceneIn)[k1]) = << "", "brick", "png" >>


TexturesReturned == tpc = "done"

\* Embedded texture i (0-based) of the scene is the one that was at index i,
\* untouched or resized in place, with the format hint it had if it had one
\* and under the file name it had if it had one.
SameTextureAt(i) ==
    LET old == sceneIn.textures[i + 1]
        new == scene.textures[i + 1]
    IN  /\ \/ new = old
           \/ /\ new.w = ScaledDim(old.w, texArgs.ratio)
              /\ new.h = ScaledDim(old.h, texArgs.ratio)
        /\ old.hint # "" => new.hint = old.hint
        /\ old.mFilename # EmptyPath => new.mFilename = old.mFilename

\* C12: process_textures, whether it succeeds or fails, keeps the number of
\* embedded textures and their index order, rewrites the path of no slot
\* whose key resolves to an embedded texture, and so every reference "*N"
\* with N < len(embedded_textures) before the call is still one after it.
C12_EmbeddedIndexingPreserved ==
    TexturesReturned =>
        /\ Len(scene.textures) = Len(sceneIn.textures)
        /\ \A i \in 0..(Len(sceneIn.textures) - 1) : SameTextureAt(i)
        /\ \A k \in 1..Len(SlotRefs(sceneIn)) :
              LET ref == SlotRefs(sceneIn)[k]
                  key == SlotPath(sceneIn, ref)
              IN  /\ GetEmbeddedTexture(sceneIn, key) # -1 =>
                        /\ SlotPath(scene, ref) = key
                        /\ GetEmbeddedTexture(scene, key) = GetEmbeddedTexture(sceneIn, key)
                  /\ GetEmbeddedTexture(scene, key) # -1 => SlotPath(scene, ref) = key

\* A successful run with a non-empty output_dir over a scene with two
\* different embedded textures, both resized, the second one named and
\* referenced as "*1" and by its file name, beside an external key that was
\* rewritten.
C12_Witness ==
    /\ PassBRan
    /\ Len(sceneIn.textures) = 2
    /\ sceneIn.textures[1].mFilename = EmptyPath
    /\ sceneIn.textures[2].mFilename = << "", "emb", "jpg" >>
    /\ sceneIn.textures[1].w # sceneIn.textures[2].w
    /\ scene.textures[1].w < sceneIn.textures[1].w
    /\ scene.textures[2].w < sceneIn.textures[2].w
    /\ { StarKey(1), << "", "emb", "jpg" >>, << "a", "brick", "png" >> } = SlotKeys(sceneIn)
    /\ SlotKeys(scene) = { StarKey(1), << "", "emb", "jpg" >>, << "", "brick", "png" >> }
    /\ GetEmbeddedTexture(scene, StarKey(1)) = 1


\* C13: after Pass A every embedded texture's format_hint names the encoder
\* that produced its blob: a JPEG hint if and only if the blob is JPEG, "png"
\* if and only if it is PNG, whatever the hint was on input.
C13_HintNamesEncoder ==
    TexturesSucceeded =>
        \A i \in 1..Len(scene.textures) :
            /\ scene.textures[i].hint \in { "jpg", "jpeg" } <=> scene.textures[i].enc = "jpg"
            /\ scene.textures[i].hint = "png" <=> scene.textures[i].enc = "png"


-----------------------------------------------------------------------------
(***************************************************************************)
(* Properties of buildAtlas.                                               *)
(***************************************************************************)
AtlasReturned == atlas.pc = "done"

AtlasSucceeded == AtlasReturned /\ atlas.err = ""

\* The atlas file names of the name table of the specification, by type.
AtlasNameTable ==
    [ t \in Range(kTextureTypes) |->
        CASE t = "DIFFUSE" -> "atlas_diffuse"
          [] t = "SPECULAR" -> "atlas_specular"
          [] t = "AMBIENT" -> "atlas_ambient"
          [] t = "EMISSIVE" -> "atlas_emissive"
          [] t = "HEIGHT" -> "atlas_height"
          [] t = "NORMALS" -> "atlas_normal"
          [] t = "SHININESS" -> "atlas_shininess"
          [] t = "OPACITY" -> "atlas_opacity"
          [] t = "DISPLACEMENT" -> "atlas_displacement"
          [] t = "LIGHTMAP" -> "atlas_lightmap"
          [] t = "REFLECTION" -> "atlas_reflection"
          [] t = "BASE_COLOR" -> "atlas_basecolor"
          [] t = "NORMAL_CAMERA" -> "atlas_normal_camera"
          [] t = "EMISSION_COLOR" -> "atlas_emission"
          [] t = "METALNESS" -> "atlas_metalness"
          [] t = "DIFFUSE_ROUGHNESS" -> "atlas_roughness"
          [] t = "AMBIENT_OCCLUSION" -> "atlas_ao"
          [] t = "SHEEN" -> "atlas_sheen"
          [] t = "CLEARCOAT" -> "atlas_clearcoat"
          [] t = "TRANSMISSION" -> "atlas_transmission" ]

ActiveTypes(sc) == { SlotRefs(sc)[k][2] : k \in 1..Len(SlotRefs(sc)) }

\* C14: after a successful build_atlas the materials have the slots they had
\* (none appears, none disappears, so inactive types still have none), and
\* every slot, its type being active, has the path atlas_<suffix(T)>.png of
\* the name table and clamp wrap modes on U and V.
C14_SlotsCarryAtlasNames ==
    AtlasSucceeded =>
        /\ Len(atlas.scene.materials) = Len(atlas.sceneIn.materials)
        /\ \A m \in 1..Len(atlas.sceneIn.materials), t \in Range(kTextureTypes) :
              /\ Len(atlas.scene.materials[m][t]) = Len(atlas.sceneIn.materials[m][t])
              /\ \A k \in 1..Len(atlas.sceneIn.materials[m][t]) :
                    atlas.scene.materials[m][t][k] =
                        [ path |-> << "", AtlasNameTable[t], "png" >>,
                          wrapU |-> "clamp", wrapV |-> "clamp" ]

\* A successful run over two materials with diffuse and normals slots.
C14_Witness ==
    /\ AtlasSucceeded
    /\ ActiveTypes(atlas.sceneIn) = { "DIFFUSE", "NORMALS" }
    /\ Len(atlas.result) = 2
    /\ Len(SlotRefs(atlas.sceneIn)) = 3
    /\ atlas.scene.materials[1]["NORMALS"][1].path = << "", "atlas_normal", "png" >>
    /\ atlas.scene.materials[2]["DIFFUSE"][1].wrapV = "clamp"


\* The region of source src in the atlas of type t, and the region that drove
\* the UV remap of the meshes of material m (0-based).
RegionIn(t, src) == atlas.locals.typeAtlas[t].regions[src]

DrivingRegion(m) == atlas.locals.diffuseRegions[atlas.locals.matToSrc[m]]

UVRemapped(m) ==
    /\ atlas.locals.diffuseBuilt
    /\ atlas.locals.matToSrc[m] >= 0
    /\ DrivingRegion(m).w # 0
    /\ DrivingRegion(m).h # 0

\* C15: after a successful build_atlas, for every material m whose meshes had
\* their UVs remapped and every slot of m, of type T, the rectangle of the
\* slot's texture in atlas T, divided by the size of atlas T, equals the
\* rectangle that drove the remap, divided by the size of the diffuse atlas.
C15_SameNormalisedRectangle ==
    AtlasSucceeded =>
        \A k \in 1..Len(atlas.locals.slotRefs) :
            LET ref == atlas.locals.slotRefs[k]
                reg == RegionIn(ref[2], ref[4])
                drv == DrivingRegion(ref[1])
                tw == atlas.locals.typeAtlas[ref[2]].w
                th == atlas.locals.typeAtlas[ref[2]].h
                dw == atlas.locals.diffuseAtlasW
                dh == atlas.locals.diffuseAtlasH
            IN  UVRemapped(ref[1]) =>
                    /\ reg.x * dw = drv.x * tw
                    /\ reg.w * dw = drv.w * tw
                    /\ reg.y * dh = drv.y * th
                    /\ reg.h * dh = drv.h * th

FracLeq(a, b) == a[1] * b[2] <= b[1] * a[2]

InUnit(u) == FracLeq(Frac(0, 1), u) /\ FracLeq(u, Frac(1, 1))

\* The UV channels buildAtlas rewrites: the leading non-null ones.
RemappedChannels(m) == 0..(LeadingPresent(m.mTextureCoords, 0, kMaxUVChannels) - 1)

UVsInUnit(m) ==
    \A ch \in RemappedChannels(m) :
        \A v \in 1..Len(m.mTextureCoords[ch].data) :
            InUnit(m.mTextureCoords[ch].data[v][1]) /\ InUnit(m.mTextureCoords[ch].data[v][2])

\* C16: after a successful build_atlas, for every mesh whose material
\* resolves to a diffuse region of non-zero area and whose UVs were all in
\* [0,1], every remapped (u, v) lies in [u0, u0+us] x [v0, v0+vs] and in
\* [0,1] x [0,1].
C16_UVInsideRegionAndUnit ==
    AtlasSucceeded =>
        \A i \in 1..Len(atlas.sceneIn.meshes) :
            LET old == atlas.sceneIn.meshes[i]
                new == atlas.scene.meshes[i]
                reg == DrivingRegion(old.mMaterialIndex)
                dw == atlas.locals.diffuseAtlasW
                dh == atlas.locals.diffuseAtlasH
            IN  ( /\ old.mMaterialIndex < Len(atlas.sceneIn.materials)
                  /\ UVRemapped(old.mMaterialIndex)
                  /\ UVsInUnit(old) ) =>
                    \A ch \in RemappedChannels(old) :
                        \A v \in 1..Len(new.mTextureCoords[ch].data) :
                            LET uv == new.mTextureCoords[ch].data[v]
                            IN  /\ FracLeq(Frac(reg.x, dw), uv[1])
                                /\ FracLeq(uv[1], Frac(reg.x + reg.w, dw))
                                /\ FracLeq(Frac(reg.y, dh), uv[2])
                                /\ FracLeq(uv[2], Frac(reg.y + reg.h, dh))
                                /\ InUnit(uv[1])
                                /\ InUnit(uv[2])

\* C17: after a successful build_atlas with output directory D the file
\* D/atlas_<suffix(T)>.png exists for every active type T.
C17_AtlasFilesExist ==
    AtlasSucceeded =>
        \A t \in ActiveTypes(atlas.sceneIn) :
            << atlas.opts.outputDir, "", AtlasNameTable[t], "png" >> \in DOMAIN disk.images

\* C18: build_atlas removes files of output_dir only: every file the model
\* directory held when it was called is still there when it returns.
C18_ModelDirFilesSurvive ==
    AtlasReturned =>
        \A f \in DOMAIN atlas.diskIn.images :
            f[1] = atlas.opts.modelDir => f \in DOMAIN disk.images

\* C19: if no material has a texture slot, build_atlas returns an empty list
\* and the scene (embedded textures, materials, mesh UVs) and the disk are as
\* they were.
C19_NoSourcesNoChange ==
    (AtlasReturned /\ SlotRefs(atlas.sceneIn) = <<>>) =>
        /\ atlas.err = ""
        /\ atlas.result = <<>>
        /\ atlas.scene = atlas.sceneIn
        /\ disk = atlas.diskIn

\* build_atlas returned for a scene without slots that has meshes and an
\* embedded texture.
C19_Witness ==
    /\ AtlasReturned
    /\ SlotRefs(atlas.sceneIn) = <<>>
    /\ Len(atlas.sceneIn.textures) = 1
    /\ Len(atlas.sceneIn.meshes) = 2
    /\ Len(atlas.scene.textures) = 1

\* C20: every model file the saver wrote holds only materials that some mesh
\* of the model references.
C20_SavedMaterialsReferenced ==
    \A path \in DOMAIN disk.models :
        \A k \in 1..Len(disk.models[path].materials) :
            \E i \in 1..Len(disk.models[path].meshes) :
                disk.models[path].meshes[i].mMaterialIndex = k - 1


-----------------------------------------------------------------------------
(***************************************************************************)
(* Further properties of processTextures.                                  *)
(***************************************************************************)
\* C21: process_textures called with resize = false writes each external
\* texture to output_dir with the width and height of a source file of that
\* leaf name, whatever the ratio.
C21_NoResizeKeepsDimensions ==
    (PassBRan /\ ~texArgs.opts.resizeTextures) =>
        \A key \in ExternalKeys :
            LET dest == disk.images[<< texArgs.opts.outputDir >> \o Filename(key)]
            IN  \E other \in ExternalKeys :
                  LET src == disk.images[<< texArgs.opts.modelDir, other[1], other[2], other[3] >>]
                  IN  /\ Filename(other) = Filename(key)
                      /\ dest.w = src.w
                      /\ dest.h = src.h


\* The weights of one bone that refer to a surviving vertex, first to last,
\* each with its vertex id looked up in the remap table.
RECURSIVE SurvivingWeights(_, _)
SurvivingWeights(bone, remap) ==
    IF bone = <<>> THEN <<>>
    ELSE LET w == Head(bone)
             rest == SurvivingWeights(Tail(bone), remap)
         IN  IF remap[w.mVertexId + 1] = SENTINEL THEN rest
             ELSE << [mVertexId |-> remap[w.mVertexId + 1], mWeight |-> w.mWeight] >> \o rest

\* C22: when simplify ran the kernel, the mesh has as many bones as before and
\* each bone holds exactly the weights whose vertex survived, in their
\* original order, with the weight value unchanged and the vertex id
\* rewritten through the remap table; a bone whose weights were all culled is
\* still there, with no weight.
C22_BoneRemap ==
    (spc = "done" /\ locals.ran) =>
        /\ Len(mesh.mBones) = Len(meshIn.mBones)
        /\ \A b \in 1..Len(meshIn.mBones) :
              mesh.mBones[b] = SurvivingWeights(meshIn.mBones[b], locals.remap)

\* Of the two bones of the input, one lost every weight and is still there,
\* empty.
C22_Witness ==
    /\ spc = "done" /\ locals.ran
    /\ Len(mesh.mBones) = 2
    /\ \E b \in 1..2 : Len(meshIn.mBones[b]) > 0 /\ mesh.mBones[b] = <<>>

\* The components one vertex contributes to the bundle: two per UV channel,
\* channel 0 first, then the three of the normal.
BundleOf(v, U, N) ==
    [k \in 1..(2 * U + (IF N THEN 3 ELSE 0)) |->
        IF k <= 2 * U THEN v.uv[(k - 1) \div 2][((k - 1) % 2) + 1] ELSE v.n[k - 2 * U]]

\* C23: when simplify ran the kernel on a mesh with U leading UV channels and
\* normals present or not, the bundle has A = 2*U + 3*[normals] components,
\* A <= 32, a stride of 4*A <= 256 bytes, the UV channels in channel order
\* before the normal, weights 1.5 for channel 0, 0.8 for later channels and 0.5
\* for the normal, and the attribute-aware kernel was called iff A > 0.
C23_AttributeBundle ==
    (spc = "done" /\ locals.ran) =>
        LET U == locals.layout.uvChannels
            N == meshIn.mNormals.present
            A == 2 * U + (IF N THEN 3 ELSE 0)
            at == locals.attrs
        IN  /\ at.count = A /\ A <= kMeshoptMaxAttributes
            /\ at.stride = 4 * A /\ at.stride <= 256
            /\ A > 0 =>
                  /\ at.weights = [k \in 1..A |-> IF k <= 2 * U THEN (IF k <= 2 THEN 15 ELSE 8) ELSE 5]
                  /\ at.data = [i \in 1..meshIn.mNumVertices |-> BundleOf(locals.verts[i], U, N)]
            /\ (locals.kernel = "meshopt_simplifyWithAttributes") <=> (A > 0)
            /\ (locals.kernel = "meshopt_simplify") <=> (A = 0)

\* simplify ran on a mesh with all eight UV channels and normals: 19
\* components, through the attribute-aware kernel.
C23_Witness ==
    /\ spc = "done" /\ locals.ran
    /\ locals.layout.uvChannels = kMaxUVChannels /\ meshIn.mNormals.present
    /\ locals.attrs.count = 19
    /\ locals.kernel = "meshopt_simplifyWithAttributes"

\* The source index of a key: the number of distinct keys met before it in
\* the order the slots are visited.
SourceIndexOf(key) ==
    LET refs == SlotRefs(atlas.sceneIn)
        first == CHOOSE k \in 1..Len(refs) :
                    /\ SlotPath(atlas.sceneIn, refs[k]) = key
                    /\ \A j \in 1..(k - 1) : SlotPath(atlas.sceneIn, refs[j]) # key
    IN  Cardinality({ SlotPath(atlas.sceneIn, refs[j]) : j \in 1..(first - 1) })

\* The types of which material m (1-based) has a slot, as indices of the
\* canonical type list.
SlotTypesOf(m) ==
    { t \in 1..Len(kTextureTypes) : atlas.sceneIn.materials[m][kTextureTypes[t]] # <<>> }

\* buildAtlas got as far as the material-to-source mapping.
AtlasMapped == AtlasReturned /\ atlas.locals.sources # <<>>

\* C24: mat_to_src[m] is the source index of the first diffuse slot of
\* material m when it has one, else of its first slot in canonical type order
\* and then slot order, and -1 only when m has no slot; after a successful
\* run the meshes of a material mapped to -1 have the UVs they had.
C24_MatToSrc ==
    AtlasMapped =>
        /\ \A m \in 1..Len(atlas.sceneIn.materials) :
              LET mats == atlas.sceneIn.materials[m]
                  firstType == CHOOSE t \in SlotTypesOf(m) : \A u \in SlotTypesOf(m) : t <= u
              IN  atlas.locals.matToSrc[m - 1] =
                      IF mats["DIFFUSE"] # <<>> THEN SourceIndexOf(mats["DIFFUSE"][1].path)
                      ELSE IF SlotTypesOf(m) # {} THEN SourceIndexOf(mats[kTextureTypes[firstType]][1].path)
                      ELSE -1
        /\ AtlasSucceeded =>
              \A i \in 1..Len(atlas.sceneIn.meshes) :
                  LET m == atlas.sceneIn.meshes[i].mMaterialIndex
                  IN  (m < Len(atlas.sceneIn.materials) /\ atlas.locals.matToSrc[m] = -1) =>
                          atlas.scene.meshes[i] = atlas.sceneIn.meshes[i]

\* A successful run that built the diffuse atlas: material 0, with no diffuse
\* slot, is mapped to the source of its specular slot; material 1 to the
\* source of the first of its two diffuse slots, and its mesh was remapped;
\* material 2 has no slot, is mapped to -1 and its mesh is as it was.
C24_Witness ==
    /\ AtlasSucceeded /\ atlas.locals.diffuseBuilt
    /\ atlas.sceneIn.materials[1]["DIFFUSE"] = <<>>
    /\ atlas.locals.matToSrc[0] = SourceIndexOf(atlas.sceneIn.materials[1]["SPECULAR"][1].path)
    /\ Len(atlas.sceneIn.materials[2]["DIFFUSE"]) = 2
    /\ atlas.locals.matToSrc[1] = 2
    /\ atlas.scene.meshes[2] # atlas.sceneIn.meshes[2]
    /\ SlotTypesOf(3) = {}
    /\ atlas.locals.matToSrc[2] = -1
    /\ atlas.scene.meshes[3] = atlas.sceneIn.meshes[3]

\* C25: when build_atlas returns AtlasBuildFailed from Phase 3 (the height
\* check, the PNG encoder or the atlas file write), the scene still holds the
\* embedded textures it had and every "*N" reference of a material names one
\* of them.
C25_TexturesSurvivePhase3Error ==
    (AtlasMapped /\ atlas.err = "AtlasBuildFailed") =>
        /\ atlas.scene.textures = atlas.sceneIn.textures
        /\ \A k \in 1..Len(SlotRefs(atlas.scene)) :
              LET key == SlotPath(atlas.scene, SlotRefs(atlas.scene)[k])
              IN  key[1] = "*" => GetEmbeddedTexture(atlas.scene, key) # -1

\* Two regions share a pixel.
RegionsOverlap(a, b) ==
    /\ a.x < b.x + b.w /\ b.x < a.x + a.w
    /\ a.y < b.y + b.h /\ b.y < a.y + a.h

\* C26: in every per-type atlas of a build_atlas that returned without error
\* the packed regions are pairwise non-overlapping and each lies inside the
\* atlas image: x >= 0, y >= 0, x + w <= atlasW, y + h <= atlasH.
C26_RegionsInsideAtlas ==
    AtlasSucceeded =>
        \A t \in DOMAIN atlas.locals.typeAtlas :
            LET at == atlas.locals.typeAtlas[t] IN
            /\ \A q \in DOMAIN at.regions :
                  /\ at.regions[q].x >= 0 /\ at.regions[q].y >= 0
                  /\ at.regions[q].x + at.regions[q].w <= at.w
                  /\ at.regions[q].y + at.regions[q].h <= at.h
            /\ \A q1, q2 \in DOMAIN at.regions :
                  q1 # q2 => ~RegionsOverlap(at.regions[q1], at.regions[q2])

\* C27: after a successful process_textures output_count is the number of
\* re-encoded embedded textures plus the number of distinct files written
\* into output_dir, two external keys with one leaf name writing one file.
C27_OutputCountsDistinctFiles ==
    TexturesSucceeded =>
        texResult.stats.outputCount =
            Len(sceneIn.textures)
            + (IF texArgs.opts.outputDir = "" THEN 0
               ELSE Cardinality({ Filename(key) : key \in ExternalKeys }))

-----------------------------------------------------------------------------
(***************************************************************************)
(* Further properties of generateLods.                                     *)
(***************************************************************************)
\* output_dir/lod<i+1>/<stem>_lod<i+1><ext> for the input path foo.gltf, by
\* iteration (1-based).
ExpectedOutPaths ==
    << << "lod1", "", "foo_lod1", "gltf" >>, << "lod2", "", "foo_lod2", "gltf" >>,
       << "lod3", "", "foo_lod3", "gltf" >>, << "lod4", "", "foo_lod4", "gltf" >> >>

\* C28: on success generate_lods returns one LodInfo per ratio, in order:
\* entry i has the ratio i, the path output_dir/lod<i>/<stem>_lod<i><ext> of
\* the model it wrote, one mesh result per mesh of the scene with the face
\* count of that mesh in the model written, and texture stats present iff
\* texture options were given with resize set, in which case the external
\* textures of the model written are files of the iteration's directory.
C28_OneLodInfoPerRatio ==
    lod.status = "ok" =>
        /\ Len(lod.results) = Len(lod.ratios)
        /\ \A i \in 1..Len(lod.ratios) :
              LET info == lod.results[i]
                  path == ExpectedOutPaths[i]
                  model == disk.models[path]
              IN  /\ info.ratio = lod.ratios[i]
                  /\ info.outputPath = path
                  /\ path \in DOMAIN disk.models
                  /\ Len(info.meshResults) = Len(lod.sceneIn.meshes)
                  /\ Len(model.meshes) = Len(lod.sceneIn.meshes)
                  /\ \A m \in 1..Len(model.meshes) :
                        info.meshResults[m].simplifiedTriangles = Len(model.meshes[m].mFaces)
                  /\ info.textureStats.present <=> (lod.texOpts.present /\ lod.texOpts.resizeTextures)
                  /\ info.textureStats.present =>
                        \A k \in 1..Len(SlotRefs(model)) :
                            LET key == SlotPath(model, SlotRefs(model)[k])
                            IN  GetEmbeddedTexture(model, key) = -1 =>
                                    << path[1] >> \o Filename(key) \in DOMAIN disk.images

\* A successful call over two different ratios with texture options and
\* resize set: the second iteration wrote its external texture into lod2.
C28_Witness ==
    /\ lod.status = "ok"
    /\ Len(lod.ratios) = 2 /\ lod.ratios[1] # lod.ratios[2]
    /\ lod.results[2].textureStats.present
    /\ lod.results[2].textureStats.stats.outputCount = 1
    /\ lod.results[1].meshResults[1].simplifiedTriangles = 1
    /\ << "lod2", "", "brick", "png" >> \in DOMAIN disk.images

-----------------------------------------------------------------------------
(***************************************************************************)
(* Properties of buildLodAtlas.                                            *)
(***************************************************************************)
\* The image files the model now at the model path names: for each slot key
\* that is not an embedded texture, the file of that leaf name in the output
\* directory and the one in the model directory.
ReferencedFiles ==
    LET model == disk.models[lodAtlas.modelPath]
        keys == { SlotPath(model, SlotRefs(model)[k]) : k \in 1..Len(SlotRefs(model)) }
        external == { key \in keys : GetEmbeddedTexture(model, key) = -1 }
    IN  { InDir(lodAtlas.opts.outputDir, key) : key \in external }
        \cup { InDir(lodAtlas.opts.modelDir, key) : key \in external }

\* C29: when build_lod_atlas returns an error, from the load, the atlas
\* build or the re-save, every image file that was on disk and that the
\* model now at model_path references is still on disk.
C29_ErrorDeletesNothingReferenced ==
    (lodAtlas.pc = "done" /\ lodAtlas.err \notin { "", "crash" }
        /\ lodAtlas.modelPath \in DOMAIN disk.models) =>
        \A f \in ReferencedFiles :
            f \in DOMAIN lodAtlas.diskIn.images => f \in DOMAIN disk.images

-----------------------------------------------------------------------------
(***************************************************************************)
(* Properties of the single-atlas buildAtlas.                              *)
(***************************************************************************)
SingleSucceeded == single.pc = "done" /\ single.err = ""

\* Mesh i has, in every UV channel it had, the coordinates it had mapped
\* into region reg of the atlas.
MeshInRegion(i, reg) ==
    LET old == single.sceneIn.meshes[i].mTextureCoords
        new == single.scene.meshes[i].mTextureCoords
    IN  \A ch \in DOMAIN old :
          /\ new[ch].present = old[ch].present
          /\ old[ch].present =>
                \A v \in DOMAIN old[ch].data :
                    /\ new[ch].data[v][1] =
                          RemapCoord(old[ch].data[v][1], reg.x, reg.w, single.locals.atlasW)
                    /\ new[ch].data[v][2] =
                          RemapCoord(old[ch].data[v][2], reg.y, reg.h, single.locals.atlasH)

\* The meshes whose material exists and has a texture slot.
TexturedMeshes ==
    { i \in 1..Len(single.sceneIn.meshes) :
        LET m == single.sceneIn.meshes[i].mMaterialIndex
        IN  /\ m < Len(single.sceneIn.materials)
            /\ \E t \in Range(kTextureTypes) : single.sceneIn.materials[m + 1][t] # <<>> }

\* C30: the single-atlas buildAtlas, called on a scene with an embedded
\* texture, ends on success with one embedded texture, the PNG atlas, every
\* slot of every type at "*0" with clamp on U and V, and the UVs of every
\* textured mesh mapped into a region of the atlas; called on a scene with no
\* embedded texture it returns empty stats and changes nothing.
C30_SingleAtlasPostcondition ==
    SingleSucceeded =>
        IF single.sceneIn.textures = <<>>
        THEN single.scene = single.sceneIn /\ single.stats = EmptyAtlasStats
        ELSE /\ Len(single.scene.textures) = 1
             /\ single.scene.textures[1].enc = "png"
             /\ \A m \in 1..Len(single.sceneIn.materials), t \in Range(kTextureTypes) :
                   /\ Len(single.scene.materials[m][t]) = Len(single.sceneIn.materials[m][t])
                   /\ \A k \in 1..Len(single.scene.materials[m][t]) :
                         single.scene.materials[m][t][k] =
                             [path |-> << "*", "0", "" >>, wrapU |-> "clamp", wrapV |-> "clamp"]
             /\ \A i \in TexturedMeshes :
                   \E q \in 1..Len(single.locals.regions) : MeshInRegion(i, single.locals.regions[q])

====
